---- MODULE Spec2Model ----
(***************************************************************************)
(* Model of the Anchor constraint analyzer: the constraint classifier      *)
(* (constraint_extractor.py), the typed account model                      *)
(* (constraint_types.py) and the two-pass definition-graph analysis        *)
(* (definition_analyzer.py).                                               *)
(*                                                                         *)
(* Text is modelled as a sequence of tokens.  A token is a maximal run of  *)
(* identifier characters or a single punctuation / white-space character,  *)
(* so every character test the code makes (regular expression, bracket     *)
(* depth, strip, startswith) is a test on one token.                       *)
(* An Optional[T] value is a tuple of length 0 (None) or 1 (the value).    *)
(***************************************************************************)
EXTENDS Integers, Sequences, FiniteSets, TLC

VARIABLES constraints, graph, constants_cache, pc, idx, hasOneTodo, refsTodo,
          split_text, split_delimiter, split_parts,
          parse_text, parse_attributes, siblings, constraints_list

vars == <<constraints, graph, constants_cache, pc, idx, hasOneTodo, refsTodo,
          split_text, split_delimiter, split_parts,
          parse_text, parse_attributes, siblings, constraints_list>>

(***************************************************************************)
(* Bounds of the model.                                                    *)
(***************************************************************************)
MaxAccounts == 2

\* The longest text handed to _smart_split, in characters.
MaxText == 4

(***************************************************************************)
(* Optional values and generic sequence helpers.                           *)
(***************************************************************************)
None == <<>>

Some(x) == <<x>>

\* Python truthiness of an Optional[str]: neither None nor the empty string.
Truthy(o) == o /= None /\ o[1] /= <<>>

Range(s) == {s[i] : i \in 1..Len(s)}

\* All enumerations of a finite set: the orders in which a Python set may be
\* iterated (the order depends on the process's string hash seed).
RECURSIVE Orders(_)
Orders(S) ==
    IF S = {} THEN {<<>>}
    ELSE UNION {{<<x>> \o t : t \in Orders(S \ {x})} : x \in S}

RECURSIVE Flatten(_)
Flatten(ss) == IF ss = <<>> THEN <<>> ELSE Head(ss) \o Flatten(Tail(ss))

RECURSIVE SeqsUpTo(_, _)
SeqsUpTo(S, n) ==
    IF n = 0 THEN {<<>>}
    ELSE LET shorter == SeqsUpTo(S, n - 1)
         IN  shorter \cup {Append(s, x) : s \in {t \in shorter : Len(t) = n - 1}, x \in S}

(***************************************************************************)
(* Token classes.                                                          *)
(***************************************************************************)
\* Tokens that match [a-z_][a-z0-9_]* as a whole.
LowerIdents ==
    {"u", "v", "m", "g", "n", "id", "b", "s", "key", "as_ref", "bump", "owner",
     "to_le_bytes", "rent", "clock", "system_program", "token_program",
     "associated_token_program", "recent_slothashes", "instruction_sysvar_account"}

\* Tokens made of word characters that do not start with [a-z_].
OtherWords == {"SOME_CONST", "OTHER_CONST", "Err", "255", "u64"}

WhiteSpace == {" ", "\n"}

IsWord(t) == t \in LowerIdents \cup OtherWords

(***************************************************************************)
(* Reference resolver: _extract_references_from_expression.  The pattern   *)
(* is: word boundary, a lower-case identifier, then one of "." / newline / *)
(* end of text / white space, then optionally another lower-case           *)
(* identifier.                                                             *)
(***************************************************************************)
excluded ==
    {"self", "ctx", "Some", "None", "Ok", "Err", "as_ref", "to_be_bytes",
     "key", "as_bytes", "clone", "to_string", "unwrap", "expect"}

Ref(name, fld) == [name |-> name, field |-> fld]

\* re.findall from token i on: the non-overlapping matches, left to right.
RECURSIVE FindAll(_, _)
FindAll(e, i) ==
    IF i > Len(e) THEN <<>>
    ELSE
      LET boundary == i = 1 \/ ~IsWord(e[i - 1])
          atEnd    == i = Len(e)
          sepOk    == ~atEnd /\ e[i + 1] \in ({"."} \cup WhiteSpace)
      IN  IF e[i] \in LowerIdents /\ boundary /\ (atEnd \/ sepOk)
          THEN LET sep  == IF atEnd THEN "" ELSE e[i + 1]
                   has3 == ~atEnd /\ i + 2 <= Len(e) /\ e[i + 2] \in LowerIdents
                   g3   == IF has3 THEN e[i + 2] ELSE ""
                   next == IF atEnd THEN i + 1 ELSE IF has3 THEN i + 3 ELSE i + 2
               IN  <<(<<e[i], sep, g3>>)>> \o FindAll(e, next)
          ELSE FindAll(e, i + 1)

\* The set of (identifier, field) pairs of an expression.
ExtractReferences(expression) ==
    {Ref(mt[1], IF mt[2] = "." /\ mt[3] \notin excluded THEN mt[3] ELSE "")
       : mt \in Range(FindAll(expression, 1))}

(***************************************************************************)
(* Text helpers of the classifier (constraint_extractor.py).               *)
(***************************************************************************)
\* str.strip(): drop leading and trailing white space.
RECURSIVE LStrip(_)
LStrip(t) == IF t /= <<>> /\ Head(t) \in WhiteSpace THEN LStrip(Tail(t)) ELSE t

RECURSIVE RStrip(_)
RStrip(t) ==
    IF t /= <<>> /\ t[Len(t)] \in WhiteSpace THEN RStrip(SubSeq(t, 1, Len(t) - 1)) ELSE t

Strip(t) == RStrip(LStrip(t))

\* The loop of _smart_split from character i on; st holds parts, current and
\* the three depths.
RECURSIVE SmartSplitLoop(_, _, _, _)
SmartSplitLoop(text, delimiter, i, st) ==
    IF i > Len(text) THEN st
    ELSE
      LET char == text[i]
          cut  == char \notin {"[", "]", "(", ")", "<", ">"}
                  /\ char = delimiter
                  /\ st.depth = 0 /\ st.paren_depth = 0 /\ st.angle_depth = 0
          st2  == IF cut
                  THEN [st EXCEPT !.parts = Append(@, st.current), !.current = <<>>]
                  ELSE [st EXCEPT
                          !.depth = IF char = "[" THEN @ + 1
                                    ELSE IF char = "]" THEN @ - 1 ELSE @,
                          !.paren_depth = IF char = "(" THEN @ + 1
                                          ELSE IF char = ")" THEN @ - 1 ELSE @,
                          !.angle_depth = IF char = "<" THEN @ + 1
                                          ELSE IF char = ">" THEN @ - 1 ELSE @,
                          !.current = Append(@, char)]
      IN  SmartSplitLoop(text, delimiter, i + 1, st2)

smart_split(text, delimiter) ==
    LET st == SmartSplitLoop(text, delimiter, 1,
                 [parts |-> <<>>, current |-> <<>>,
                  depth |-> 0, paren_depth |-> 0, angle_depth |-> 0])
    IN  IF st.current /= <<>> THEN Append(st.parts, st.current) ELSE st.parts

\* [f(x) for x in s if x] after stripping each element.
RECURSIVE StripNonEmpty(_)
StripNonEmpty(parts) ==
    IF parts = <<>> THEN <<>>
    ELSE LET h == Strip(Head(parts))
         IN  (IF h /= <<>> THEN <<h>> ELSE <<>>) \o StripNonEmpty(Tail(parts))

parse_seeds_array(seeds_str) ==
    LET t     == Strip(seeds_str)
        inner == IF t /= <<>> /\ Head(t) = "[" /\ t[Len(t)] = "]" /\ Len(t) >= 2
                 THEN SubSeq(t, 2, Len(t) - 1)
                 ELSE t
    IN  StripNonEmpty(smart_split(inner, ","))

(***************************************************************************)
(* Raw attributes and the typed account model.                             *)
(***************************************************************************)
\* ConstraintAttribute: name and Optional value (raw text).
Attr(n, v) == [name |-> n, value |-> v]

\* The value of the last attribute of the given name for which take() holds,
\* as the classifier's "for attr in attributes: if attr.name == ..." loops
\* leave it; dflt when there is none.
RECURSIVE LastValue(_, _, _)
LastValue(attributes, n, dflt) ==
    IF attributes = <<>> THEN dflt
    ELSE LET a == attributes[Len(attributes)]
         IN  IF a.name = n THEN a.value
             ELSE LastValue(SubSeq(attributes, 1, Len(attributes) - 1), n, dflt)

HasAttr(attributes, n) == \E i \in 1..Len(attributes) : attributes[i].name = n

\* Attribute names that start with "associated_token::".
AssociatedTokenNames ==
    {"associated_token::mint", "associated_token::authority",
     "associated_token::token_program", "associated_token::other"}

\* Type-name tokens containing the substrings _determine_account_type tests.
ContainsSigner(type_name)    == \E i \in 1..Len(type_name) : type_name[i] \in {"Signer"}
ContainsProgram(type_name)   == \E i \in 1..Len(type_name) : type_name[i] \in {"Program"}
ContainsInterface(type_name) ==
    \E i \in 1..Len(type_name) : type_name[i] \in {"Interface", "InterfaceAccount"}
ContainsAccount(type_name)   ==
    \E i \in 1..Len(type_name) :
        type_name[i] \in {"Account", "AccountInfo", "AccountLoader", "InterfaceAccount",
                          "UncheckedAccount"}

determine_account_type(type_name, attributes) ==
    IF \E i \in 1..Len(attributes) : attributes[i].name \in AssociatedTokenNames
    THEN "associated_token"
    ELSE IF HasAttr(attributes, "seeds") THEN "seeds_derived"
    ELSE IF ContainsSigner(type_name) THEN "signer"
    ELSE IF ContainsProgram(type_name) THEN "program"
    ELSE IF ContainsInterface(type_name) THEN "interface"
    ELSE IF ContainsAccount(type_name) THEN "basic"
    ELSE "unknown"

\* The bump the loop of _parse_seeds_constraint leaves: the value of the last
\* bump attribute, or the text "bump" when that value is falsy.
RECURSIVE LastBump(_)
LastBump(attributes) ==
    IF attributes = <<>> THEN None
    ELSE LET a == attributes[Len(attributes)]
         IN  IF a.name = "bump"
             THEN (IF Truthy(a.value) THEN a.value ELSE Some(<<"bump">>))
             ELSE LastBump(SubSeq(attributes, 1, Len(attributes) - 1))

parse_seeds_constraint(attributes) ==
    LET seeds_attr == LastValue(attributes, "seeds", None)
    IN  IF seeds_attr = None THEN None
        ELSE Some([seeds   |-> parse_seeds_array(seeds_attr[1]),
                   bump    |-> LastBump(attributes),
                   program |-> LastValue(attributes, "seeds::program", None)])

parse_associated_token_constraint(attributes) ==
    LET mint          == LastValue(attributes, "associated_token::mint", None)
        authority     == LastValue(attributes, "associated_token::authority", None)
        token_program == LastValue(attributes, "associated_token::token_program", None)
    IN  IF mint = None /\ authority = None /\ token_program = None THEN None
        ELSE Some([mint |-> mint, authority |-> authority,
                   token_program |-> token_program])

\* Index of the first "@" of a text, 0 when there is none.
FirstAt(value) ==
    IF \E i \in 1..Len(value) : value[i] = "@"
    THEN CHOOSE i \in 1..Len(value) : value[i] = "@" /\ \A j \in 1..(i - 1) : value[j] /= "@"
    ELSE 0

RECURSIVE parse_custom_constraints(_)
parse_custom_constraints(attributes) ==
    IF attributes = <<>> THEN <<>>
    ELSE
      LET a    == Head(attributes)
          rest == parse_custom_constraints(Tail(attributes))
      IN  IF a.name = "constraint" /\ Truthy(a.value)
          THEN LET value == a.value[1]
                   at    == FirstAt(value)
               IN  <<[expression |-> IF at = 0 THEN value
                                     ELSE Strip(SubSeq(value, 1, at - 1)),
                      error_code |-> IF at = 0 THEN None
                                     ELSE Some(Strip(SubSeq(value, at + 1, Len(value))))]>>
                   \o rest
          ELSE rest

RECURSIVE parse_has_one_constraints(_)
parse_has_one_constraints(attributes) ==
    IF attributes = <<>> THEN <<>>
    ELSE LET a == Head(attributes)
         IN  (IF a.name = "has_one" /\ Truthy(a.value) THEN <<a.value[1]>> ELSE <<>>)
             \o parse_has_one_constraints(Tail(attributes))

\* payer / space / address: the last attribute of that name with a truthy value.
RECURSIVE LastTruthy(_, _)
LastTruthy(attributes, n) ==
    IF attributes = <<>> THEN None
    ELSE LET a == attributes[Len(attributes)]
         IN  IF a.name = n /\ Truthy(a.value) THEN a.value
             ELSE LastTruthy(SubSeq(attributes, 1, Len(attributes) - 1), n)

\* AccountField as _create_account_field builds it from a field's name, type
\* and raw attribute list.
create_account_field(name, type_name, attributes) ==
    [name              |-> name,
     type_name         |-> type_name,
     account_type      |-> determine_account_type(type_name, attributes),
     is_mut            |-> HasAttr(attributes, "mut"),
     is_init           |-> HasAttr(attributes, "init"),
     is_init_if_needed |-> HasAttr(attributes, "init_if_needed"),
     seeds             |-> parse_seeds_constraint(attributes),
     associated_token  |-> parse_associated_token_constraint(attributes),
     custom_constraints |-> parse_custom_constraints(attributes),
     has_one           |-> parse_has_one_constraints(attributes),
     payer             |-> LastTruthy(attributes, "payer"),
     space             |-> LastTruthy(attributes, "space"),
     address           |-> LastTruthy(attributes, "address")]

\* AccountField predicates (constraint_types.py).
default_names ==
    {"system_program", "token_program", "associated_token_program",
     "rent", "clock", "recent_slothashes", "instruction_sysvar_account"}

\* is_default_defined with an empty default set.
is_default_defined_Never(account) == FALSE

is_default_defined(account) == account.name \in default_names

\* is_defined_by_address that never recognises the constraint.
is_defined_by_address_Never(account) == FALSE

is_defined_by_address(account) == account.address /= None

is_defined_by_seeds(account) ==
    account.seeds /= None /\ ~account.is_init /\ ~account.is_init_if_needed

\* is_defined that asks for the mint only.
is_defined_MintOnly(associated_token) == associated_token.mint /= None

\* AssociatedTokenConstraint.is_defined
is_defined(associated_token) ==
    associated_token.mint /= None /\ associated_token.authority /= None

(***************************************************************************)
(* Analysis results (definition_analyzer.py).                              *)
(***************************************************************************)
DefinitionStatus ==
    {"defined", "undefined", "partially_defined", "incorrectly_defined", "needs_review"}

\* Number of characters of a token (tokens not listed are one character).
CharLen(t) ==
    CASE t \in {"id", "==", "//"} -> 2
      [] t \in {"key", "Err", "255", "u64"} -> 3
      [] t \in {"bump", "rent"} -> 4
      [] t \in {"owner", "clock"} -> 5
      [] t = "as_ref" -> 6
      [] t = "SOME_CONST" -> 10
      [] t \in {"to_le_bytes", "OTHER_CONST"} -> 11
      [] OTHER -> 1

\* text[:50], cut at the last token that ends within the first 50 characters.
RECURSIVE Prefix(_, _)
Prefix(text, room) ==
    IF text = <<>> \/ CharLen(Head(text)) > room THEN <<>>
    ELSE <<Head(text)>> \o Prefix(Tail(text), room - CharLen(Head(text)))

\* text[:50].replace('"', '\'')
ConstantName(text) ==
    LET cut == Prefix(text, 50)
    IN  [i \in 1..Len(cut) |-> IF cut[i] = "\"" THEN "'" ELSE cut[i]]

DefinitionSource(source_type, connection_type, source_name, source_field_name, details) ==
    [source_type |-> source_type, connection_type |-> connection_type,
     source_name |-> source_name, source_field_name |-> source_field_name,
     details |-> details]

\* Issue texts; a text is a sequence of pieces, the fixed pieces kept whole.
IssueNotDefined == <<"Account is not defined by any constraints">>
IssueUnknownSeedRef(ref) == <<"Unknown reference '", ref, "' in seeds">>
IssueUnknownBumpRef(ref) == <<"Unknown reference '", ref, "' in seed bump">>
IssueNoValidSources == <<"Seeds constraint present but no valid sources found">>
IssueMissingAT == <<"Marked as associated token but missing associated_token constraints">>
IssueMissingMint == <<"Missing 'associated_token::mint' constraint">>
IssueMintNotFound(mint_ref) == <<"Mint reference '">> \o mint_ref \o <<"' not found in accounts">>
IssueMissingAuthority == <<"Missing 'associated_token::authority' constraint">>
IssueAuthorityNotFound(authority_ref) ==
    <<"Authority reference '">> \o authority_ref \o <<"' not found in accounts">>
IssueCustomOnly == <<"Defined only by custom constraints - needs manual verification">>
IssueInitNoSeeds ==
    <<"Account has init/init_if_needed but no seeds or associated_token constraints">>
IssueNotInGraph(ref_account, connection_type) ==
    <<"Account ", ref_account, " for connection ", connection_type,
      " wasn't found in the graph">>

\* "not defined" in issue.lower(): the pieces whose lower-case text holds it.
\* (Identifiers and the texts of the model's expressions hold no blank
\* followed by "defined".)
ContainsNotDefined(issue) ==
    \E i \in 1..Len(issue) : issue[i] \in {"Account is not defined by any constraints"}

\* AccountDefinition as _analyze_account creates it.
NewDefinition(account) ==
    [account_name |-> account.name,
     account_type |-> account.account_type,
     status       |-> "undefined",
     defined_by   |-> <<>>,
     issues       |-> <<>>,
     is_inited    |-> FALSE]

\* The working state of one _analyze_account call: the definition being
\* filled, the analyzer's constants_cache, and the exception raised, if any.
NoExc == "none"

\* definition.defined_by.append(...) left out.
AddSource_Dropped(st, src) == st

AddSource(st, src) == [st EXCEPT !.definition.defined_by = Append(@, src)]

AddIssue(st, issue) == [st EXCEPT !.definition.issues = Append(@, issue)]

\* A status assignment that stores PARTIALLY_DEFINED in place of
\* NEEDS_REVIEW.
SetStatus_Partial(st, status) ==
    [st EXCEPT !.definition.status =
                 IF status = "needs_review" THEN "partially_defined" ELSE status]

SetStatus(st, status) == [st EXCEPT !.definition.status = status]

(***************************************************************************)
(* _analyze_seeds_definition.  The working record also holds the locals    *)
(* all_sources_valid (valid) and added_sources (added).                    *)
(***************************************************************************)
\* The body of "for ref_ in refs" for one seed reference (lines 318-344).
SeedRefStep(st, ref_, seed, known_accounts, known_instruction_args) ==
    IF ref_ \in st.added THEN st
    ELSE IF ref_.name \in known_accounts
    THEN [AddSource(st, DefinitionSource("account", "seed", <<ref_.name>>,
                        Some(ref_.field), <<"Referenced in seed: ">> \o Prefix(seed, 50)))
            EXCEPT !.added = @ \cup {ref_}]
    ELSE IF ref_.name \in known_instruction_args
    THEN [AddSource(st, DefinitionSource("instruction_arg", "seed", <<ref_.name>>,
                        Some(ref_.field), <<"Referenced in seed: ">> \o Prefix(seed, 50)))
            EXCEPT !.added = @ \cup {ref_}]
    ELSE [AddIssue(st, IssueUnknownSeedRef(ref_.name)) EXCEPT !.valid = FALSE]

RECURSIVE SeedRefsLoop(_, _, _, _, _)
SeedRefsLoop(st, order, seed, known_accounts, known_instruction_args) ==
    IF order = <<>> THEN st
    ELSE SeedRefsLoop(
           SeedRefStep(st, Head(order), seed, known_accounts, known_instruction_args),
           Tail(order), seed, known_accounts, known_instruction_args)

\* One iteration of "for seed in account.seeds.seeds": the possible results,
\* one for each order in which the set refs may be iterated.
SeedStep(st, seed, known_accounts, known_instruction_args) ==
    LET refs == ExtractReferences(seed)
    IN  IF refs = {}
        THEN {[AddSource(st, DefinitionSource("constant", "seed", ConstantName(seed),
                             None, <<"Constant seed value">>))
                 EXCEPT !.cache = @ \cup {ConstantName(seed)}]}
        ELSE {SeedRefsLoop(st, order, seed, known_accounts, known_instruction_args)
                : order \in Orders(refs)}

RECURSIVE SeedsLoop(_, _, _, _)
SeedsLoop(sts, seeds, known_accounts, known_instruction_args) ==
    IF seeds = <<>> THEN sts
    ELSE SeedsLoop(
           UNION {SeedStep(st, Head(seeds), known_accounts, known_instruction_args)
                    : st \in sts},
           Tail(seeds), known_accounts, known_instruction_args)

\* The body of "for ref_ in bump_refs" (lines 361-389).  The details text
\* reads the loop variable seed of the seeds loop, which is unbound when the
\* seeds list is empty.
BumpRefStep(st, ref_, seeds, known_accounts, known_instruction_args) ==
    IF st.exc /= NoExc \/ ref_ \in st.added \/ ref_.name = "bump" THEN st
    ELSE IF ref_.name \in known_accounts \/ ref_.name \in known_instruction_args
    THEN IF seeds = <<>>
         THEN [st EXCEPT !.exc = "UnboundLocalError"]
         ELSE [AddSource(st, DefinitionSource(
                        IF ref_.name \in known_accounts THEN "account"
                                                        ELSE "instruction_arg",
                        "seed_bump", <<ref_.name>>, Some(ref_.field),
                        <<"Referenced in seed_bump: ">> \o Prefix(seeds[Len(seeds)], 50)))
                 EXCEPT !.added = @ \cup {ref_}]
    ELSE [AddIssue(st, IssueUnknownBumpRef(ref_.name)) EXCEPT !.valid = FALSE]

RECURSIVE BumpRefsLoop(_, _, _, _, _)
BumpRefsLoop(st, order, seeds, known_accounts, known_instruction_args) ==
    IF order = <<>> THEN st
    ELSE BumpRefsLoop(
           BumpRefStep(st, Head(order), seeds, known_accounts, known_instruction_args),
           Tail(order), seeds, known_accounts, known_instruction_args)

\* Lines 346-389: re.findall raises TypeError on a bump of None.
BumpStep(st, seeds_constraint, known_accounts, known_instruction_args) ==
    IF seeds_constraint.bump = None
    THEN {[st EXCEPT !.exc = "TypeError"]}
    ELSE
      LET bump      == seeds_constraint.bump[1]
          bump_refs == ExtractReferences(bump)
          st0       == [st EXCEPT !.added = {}]
      IN  IF bump_refs = {}
          THEN {[AddSource(st0, DefinitionSource("constant", "seed_bump",
                                 ConstantName(bump), None, <<"Constant seed bump value">>))
                   EXCEPT !.cache = @ \cup {ConstantName(bump)}]}
          ELSE {BumpRefsLoop(st0, order, seeds_constraint.seeds,
                             known_accounts, known_instruction_args)
                  : order \in Orders(bump_refs)}

\* Lines 391-399 without the all_sources_valid test.
SeedsStatus_IgnoreValid(st) ==
    IF st.exc /= NoExc THEN st
    ELSE IF st.definition.defined_by /= <<>> THEN SetStatus(st, "defined")
    ELSE AddIssue(SetStatus(st, "undefined"), IssueNoValidSources)

\* Lines 391-399.
SeedsStatus(st) ==
    IF st.exc /= NoExc THEN st
    ELSE IF st.definition.defined_by /= <<>>
    THEN SetStatus(st, IF st.valid THEN "defined" ELSE "needs_review")
    ELSE AddIssue(SetStatus(st, "undefined"), IssueNoValidSources)

\* The possible outcomes of _analyze_seeds_definition on working state st.
analyze_seeds_definition(account, st, known_accounts, known_instruction_args) ==
    IF account.seeds = None THEN {st}
    ELSE
      LET sc        == account.seeds[1]
          start     == [st EXCEPT !.valid = TRUE, !.added = {}]
          afterSeed == SeedsLoop({start}, sc.seeds, known_accounts, known_instruction_args)
          afterBump == UNION {BumpStep(x, sc, known_accounts, known_instruction_args)
                                : x \in afterSeed}
      IN  {SeedsStatus(x) : x \in afterBump}

(***************************************************************************)
(* _analyze_associated_token.                                              *)
(***************************************************************************)
\* Lines 414-458 for one of mint / authority: the loop takes the first
\* reference, in the set's iteration order, that names a known account.
ATPart(st, expr, connection_type, details, missing, notFound, known_accounts) ==
    IF ~Truthy(expr) THEN {AddIssue(st, missing)}
    ELSE
      LET found == {r \in ExtractReferences(expr[1]) : r.name \in known_accounts}
      IN  IF found = {} THEN {AddIssue(st, notFound)}
          ELSE {AddSource(st, DefinitionSource("account", connection_type, <<r.name>>,
                                               Some(r.field), details))
                  : r \in found}

\* Lines 460-466 deciding on the recorded issues alone.
ATStatus_IssuesOnly(st, associated_token) ==
    IF Len(st.definition.issues) = 0 THEN SetStatus(st, "defined")
    ELSE SetStatus(st, "needs_review")

\* Lines 460-466.
ATStatus(st, associated_token) ==
    IF is_defined(associated_token) /\ Len(st.definition.issues) = 0
    THEN SetStatus(st, "defined")
    ELSE IF is_defined(associated_token) THEN SetStatus(st, "needs_review")
    ELSE SetStatus(st, "incorrectly_defined")

analyze_associated_token(account, st, known_accounts) ==
    IF account.associated_token = None
    THEN {AddIssue(SetStatus(st, "incorrectly_defined"), IssueMissingAT)}
    ELSE
      LET at        == account.associated_token[1]
          afterMint == ATPart(st, at.mint, "AT_mint", <<"Associated token mint">>,
                              IssueMissingMint,
                              IssueMintNotFound(IF Truthy(at.mint) THEN at.mint[1] ELSE <<>>),
                              known_accounts)
          afterAuth == UNION {ATPart(x, at.authority, "AT_authority",
                                <<"Associated token authority">>,
                                IssueMissingAuthority,
                                IssueAuthorityNotFound(
                                    IF Truthy(at.authority) THEN at.authority[1] ELSE <<>>),
                                known_accounts)
                                : x \in afterMint}
      IN  {ATStatus(x, at) : x \in afterAuth}

(***************************************************************************)
(* _analyze_custom_constraints.                                            *)
(***************************************************************************)
CustomRefStep(st, ref_, account, constraint, known_accounts) ==
    IF ref_.name \in known_accounts /\ ref_.name /= account.name
    THEN AddSource(st, DefinitionSource("account", "custom", <<ref_.name>>,
                       Some(ref_.field),
                       <<"Custom constraint: ">> \o Prefix(constraint.expression, 50)))
    ELSE st

RECURSIVE CustomRefsLoop(_, _, _, _, _)
CustomRefsLoop(st, order, account, constraint, known_accounts) ==
    IF order = <<>> THEN st
    ELSE CustomRefsLoop(CustomRefStep(st, Head(order), account, constraint, known_accounts),
                        Tail(order), account, constraint, known_accounts)

RECURSIVE CustomLoop(_, _, _, _)
CustomLoop(sts, cs, account, known_accounts) ==
    IF cs = <<>> THEN sts
    ELSE CustomLoop(
           UNION {{CustomRefsLoop(st, order, account, Head(cs), known_accounts)
                     : order \in Orders(ExtractReferences(Head(cs).expression))}
                    : st \in sts},
           Tail(cs), account, known_accounts)

analyze_custom_constraints(account, st, known_accounts) ==
    {IF x.definition.defined_by /= <<>>
     THEN AddIssue(SetStatus(x, "needs_review"), IssueCustomOnly)
     ELSE x
       : x \in CustomLoop({st}, account.custom_constraints, account, known_accounts)}

(***************************************************************************)
(* _analyze_initialized_account.                                           *)
(***************************************************************************)
\* Lines 507-515 without the final test of lines 513-515.
InitAfterSeeds_NoIssue(account, st, known_accounts) ==
    IF st.exc /= NoExc \/ (account.seeds /= None /\ st.definition.status = "defined")
    THEN {st}
    ELSE IF account.account_type = "associated_token"
    THEN analyze_associated_token(account, st, known_accounts)
    ELSE {st}

\* Lines 507-515, entered unless the seeds analysis returned DEFINED.
InitAfterSeeds(account, st, known_accounts) ==
    IF st.exc /= NoExc \/ (account.seeds /= None /\ st.definition.status = "defined")
    THEN {st}
    ELSE
      LET afterAT == IF account.account_type = "associated_token"
                     THEN analyze_associated_token(account, st, known_accounts)
                     ELSE {st}
      IN  {IF account.account_type = "associated_token" /\ x.definition.status = "defined"
           THEN x
           ELSE IF x.definition.defined_by = <<>>
           THEN AddIssue(SetStatus(x, "incorrectly_defined"), IssueInitNoSeeds)
           ELSE x
             : x \in afterAT}

analyze_initialized_account(account, st, known_accounts, known_instruction_args) ==
    UNION {InitAfterSeeds(account, x, known_accounts)
             : x \in analyze_seeds_definition(account, st, known_accounts,
                                              known_instruction_args)}

(***************************************************************************)
(* _analyze_account: the possible Pass-1 outcomes for one account, each    *)
(* with the definition, the constants_cache it leaves and the exception    *)
(* raised, if any.                                                         *)
(***************************************************************************)
\* Lines 270-287: the rules after the associated-token rule.
AnalyzeFromCustom(account, st, known_accounts, known_instruction_args) ==
    LET afterCustom == IF account.custom_constraints /= <<>>
                       THEN analyze_custom_constraints(account, st, known_accounts)
                       ELSE {st}
    IN  UNION {
          IF account.custom_constraints /= <<>> /\ x.definition.defined_by /= <<>>
          THEN {x}
          ELSE IF account.is_init \/ account.is_init_if_needed
          THEN analyze_initialized_account(account, x, known_accounts,
                                           known_instruction_args)
          ELSE IF x.definition.defined_by = <<>>
          THEN {AddIssue(SetStatus(x, "undefined"), IssueNotDefined)}
          ELSE {x}
            : x \in afterCustom}

\* _analyze_account with the address test made before the default-name test.
analyze_account_AddressFirst(account, cache, known_accounts, known_instruction_args) ==
    LET st == [definition |-> NewDefinition(account), cache |-> cache, exc |-> NoExc,
               valid |-> TRUE, added |-> {}]
        outcomes ==
          IF is_defined_by_address(account)
          THEN {[SetStatus(AddSource(st, DefinitionSource("address", "address",
                               account.address[1], None,
                               <<"Fixed address constraint">>)), "defined")
                   EXCEPT !.cache = @ \cup {account.address[1]}]}
          ELSE IF is_default_defined(account)
          THEN {SetStatus(AddSource(st, DefinitionSource("default", "default",
                              <<account.name>>, None,
                              <<"System program or standard account">>)), "defined")}
          ELSE IF is_defined_by_seeds(account)
          THEN analyze_seeds_definition(account, st, known_accounts,
                                        known_instruction_args)
          ELSE IF account.account_type = "associated_token"
          THEN analyze_associated_token(account, st, known_accounts)
          ELSE AnalyzeFromCustom(account, st, known_accounts, known_instruction_args)
    IN  {[definition |-> x.definition, cache |-> x.cache, exc |-> x.exc] : x \in outcomes}

analyze_account(account, cache, known_accounts, known_instruction_args) ==
    LET st == [definition |-> NewDefinition(account), cache |-> cache, exc |-> NoExc,
               valid |-> TRUE, added |-> {}]
        outcomes ==
          IF is_default_defined(account)
          THEN {SetStatus(AddSource(st, DefinitionSource("default", "default",
                              <<account.name>>, None,
                              <<"System program or standard account">>)), "defined")}
          ELSE IF is_defined_by_address(account)
          THEN {[SetStatus(AddSource(st, DefinitionSource("address", "address",
                               account.address[1], None,
                               <<"Fixed address constraint">>)), "defined")
                   EXCEPT !.cache = @ \cup {account.address[1]}]}
          ELSE IF is_defined_by_seeds(account)
          THEN analyze_seeds_definition(account, st, known_accounts,
                                        known_instruction_args)
          ELSE IF account.account_type = "associated_token"
          THEN analyze_associated_token(account, st, known_accounts)
          ELSE AnalyzeFromCustom(account, st, known_accounts, known_instruction_args)
    IN  {[definition |-> x.definition, cache |-> x.cache, exc |-> x.exc] : x \in outcomes}

(***************************************************************************)
(* AccountField.get_references, as a list of texts.  The custom-constraint *)
(* loop extends the list with the expression string itself, that is, with  *)
(* each of its characters.                                                 *)
(***************************************************************************)
\* The characters of a token.
TokenChars(t) ==
    CASE t = "key" -> <<"k", "e", "y">>
      [] t = "id"  -> <<"i", "d">>
      [] t = "=="  -> <<"=", "=">>
      [] t = "Err" -> <<"E", "r", "r">>
      [] OTHER     -> <<t>>

RECURSIVE Chars(_)
Chars(text) == IF text = <<>> THEN <<>> ELSE TokenChars(Head(text)) \o Chars(Tail(text))

OptList(o) == IF Truthy(o) THEN <<o[1]>> ELSE <<>>

get_references(account) ==
    (IF account.seeds /= None
     THEN account.seeds[1].seeds \o OptList(account.seeds[1].bump)
     ELSE <<>>)
    \o (IF account.associated_token /= None
        THEN OptList(account.associated_token[1].mint)
             \o OptList(account.associated_token[1].authority)
             \o OptList(account.associated_token[1].token_program)
        ELSE <<>>)
    \o Flatten([i \in 1..Len(account.custom_constraints) |->
                  [j \in 1..Len(Chars(account.custom_constraints[i].expression)) |->
                     <<Chars(account.custom_constraints[i].expression)[j]>>]])
    \o account.has_one
    \o OptList(account.payer)

(***************************************************************************)
(* DefinitionGraph.                                                        *)
(***************************************************************************)
\* DefinitionAnalyzer.__init__: a fresh graph for the struct.
NewGraph(c) ==
    [struct_name        |-> c.name,
     instruction_args   |-> [i \in 1..Len(c.instruction_args) |-> c.instruction_args[i].name],
     accounts           |-> <<>>,
     constants          |-> <<>>,
     total_accounts     |-> 0,
     defined_count      |-> 0,
     undefined_count    |-> 0,
     needs_review_count |-> 0]

HasAccount(g, name) == name \in DOMAIN g.accounts

\* add_account_definition with INCORRECTLY_DEFINED left out of the needs-review
\* statuses.
add_account_definition_NoIncorrect(g, definition) ==
    [g EXCEPT
       !.accounts = (definition.account_name :> definition) @@ @,
       !.total_accounts = @ + 1,
       !.defined_count = IF definition.status = "defined" THEN @ + 1 ELSE @,
       !.undefined_count = IF definition.status = "undefined" THEN @ + 1 ELSE @,
       !.needs_review_count =
           IF definition.status \in {"needs_review", "partially_defined"}
           THEN @ + 1 ELSE @]

add_account_definition(g, definition) ==
    [g EXCEPT
       !.accounts = (definition.account_name :> definition) @@ @,
       !.total_accounts = @ + 1,
       !.defined_count = IF definition.status = "defined" THEN @ + 1 ELSE @,
       !.undefined_count = IF definition.status = "undefined" THEN @ + 1 ELSE @,
       !.needs_review_count =
           IF definition.status \in {"needs_review", "partially_defined",
                                     "incorrectly_defined"}
           THEN @ + 1 ELSE @]

RECURSIVE SelectSeq2(_, _)
SelectSeq2(s, keep) ==
    IF s = <<>> THEN <<>>
    ELSE (IF keep[1] THEN <<Head(s)>> ELSE <<>>) \o SelectSeq2(Tail(s), Tail(keep))

\* Lines 212-215 left out: the issues are kept as they are.
StripNotDefined_Keep(issues) == issues

\* The issues without those holding "not defined" (lines 212-215).
StripNotDefined(issues) ==
    SelectSeq2(issues, [i \in 1..Len(issues) |-> ~ContainsNotDefined(issues[i])])

\* The status test of line 210 taken as "not yet DEFINED".
IsUpgradable_NotDefined(definition) == definition.status /= "defined"

\* The status test of line 210.
IsUpgradable(definition) == definition.status = "undefined"

\* The loop body of _apply_reverse_definition without its else branch: a
\* reference to a name absent from the graph is passed over.
ApplyRef_Silent(g, ref_, defining_account, connection_type, details) ==
    IF ref_.name = defining_account \/ ~HasAccount(g, ref_.name) THEN g
    ELSE
      LET source  == DefinitionSource("account", connection_type, <<defining_account>>,
                                      Some(ref_.field), details)
          upgrade == IsUpgradable(g.accounts[ref_.name])
      IN  [g EXCEPT
             !.accounts[ref_.name].defined_by = Append(@, source),
             !.accounts[ref_.name].status = IF upgrade THEN "defined" ELSE @,
             !.accounts[ref_.name].issues = IF upgrade THEN StripNotDefined(@) ELSE @,
             !.undefined_count = IF upgrade THEN @ - 1 ELSE @,
             !.defined_count = IF upgrade THEN @ + 1 ELSE @]

\* The body of the loop of _apply_reverse_definition for one reference
\* (lines 195-221).
ApplyRef(g, ref_, defining_account, connection_type, details) ==
    IF ref_.name = defining_account THEN g
    ELSE IF HasAccount(g, ref_.name)
    THEN
      LET source  == DefinitionSource("account", connection_type, <<defining_account>>,
                                      Some(ref_.field), details)
          upgrade == IsUpgradable(g.accounts[ref_.name])
      IN  [g EXCEPT
             !.accounts[ref_.name].defined_by = Append(@, source),
             !.accounts[ref_.name].status = IF upgrade THEN "defined" ELSE @,
             !.accounts[ref_.name].issues = IF upgrade THEN StripNotDefined(@) ELSE @,
             !.undefined_count = IF upgrade THEN @ - 1 ELSE @,
             !.defined_count = IF upgrade THEN @ + 1 ELSE @]
    ELSE [g EXCEPT !.accounts[defining_account].issues =
                      Append(@, IssueNotInGraph(ref_.name, connection_type))]

RECURSIVE ApplyRefs(_, _, _, _, _)
ApplyRefs(g, order, defining_account, connection_type, details) ==
    IF order = <<>> THEN g
    ELSE ApplyRefs(ApplyRef(g, Head(order), defining_account, connection_type, details),
                   Tail(order), defining_account, connection_type, details)

\* _apply_reverse_definition with the loop body run twice for a reference.
apply_reverse_definition_Twice(g, ref, defining_account, connection_type, details) ==
    {ApplyRefs(g, order \o order, defining_account, connection_type, details)
       : order \in Orders(ExtractReferences(ref))}

\* _apply_reverse_definition(ref, ...): the possible graphs, one for each
\* iteration order of the references of the text ref.
apply_reverse_definition(g, ref, defining_account, connection_type, details) ==
    {ApplyRefs(g, order, defining_account, connection_type, details)
       : order \in Orders(ExtractReferences(ref))}

(***************************************************************************)
(* Inputs: texts, raw fields and structs.                                  *)
(***************************************************************************)
\* x.key().as_ref()
KeyRef(x) == <<x, ".", "key", "(", ")", ".", "as_ref", "(", ")">>

\* b"s"
Literal == <<"b", "\"", "s", "\"">>

RECURSIVE JoinComma(_)
JoinComma(es) ==
    IF es = <<>> THEN <<>>
    ELSE IF Len(es) = 1 THEN es[1]
    ELSE es[1] \o <<",", " ">> \o JoinComma(Tail(es))

\* seeds = [e1, e2, ...]
SeedsAttr(es) == Attr("seeds", Some(<<"[">> \o JoinComma(es) \o <<"]">>))

Flag(n) == Attr(n, None)

RawField(name, type_name, attributes) ==
    [name |-> name, type_name |-> type_name, attributes |-> attributes]

SignerType == <<"Signer", "<", "'info", ">">>

AccountType == <<"Account", "<", "'info", ",", " ", "Data", ">">>

\* The raw fields of the general specification.
Fields ==
    { RawField("u", SignerType, <<>>),
      RawField("v", AccountType, <<SeedsAttr(<<Literal, KeyRef("u")>>), Flag("bump")>>),
      RawField("v", AccountType, <<SeedsAttr(<<Literal>>)>>),
      RawField("v", AccountType, <<SeedsAttr(<<>>), Attr("bump", Some(<<"u", ".", "bump">>))>>),
      RawField("v", AccountType, <<SeedsAttr(<<KeyRef("g")>>), Flag("bump")>>),
      RawField("u", AccountType, <<Attr("has_one", Some(<<"v">>))>>),
      RawField("u", AccountType, <<Flag("init"), Attr("payer", Some(<<"v">>))>>),
      RawField("v", AccountType,
               <<Attr("constraint",
                      Some(<<"u", ".", "key", "(", ")", " ", "==", " ",
                             "g", ".", "key", "(", ")", " ", "@", " ", "Err">>)),
                 Attr("has_one", Some(<<"u">>))>>),
      RawField("u", AccountType, <<Attr("address", Some(<<"SOME_CONST">>))>>),
      RawField("v", AccountType,
               <<SeedsAttr(<<KeyRef("u")>>), Flag("bump"),
                 Attr("address", Some(<<"SOME_CONST">>))>>),
      RawField("rent", AccountType,
               <<SeedsAttr(<<KeyRef("u"), <<"id", ".", "to_le_bytes", "(", ")">>>>),
                 Flag("bump")>>),
      RawField("m", AccountType,
               <<Attr("associated_token::mint", Some(<<"u">>))>>),
      RawField("clock", AccountType, <<Attr("address", Some(<<"SOME_CONST">>))>>),
      RawField("m", AccountType,
               <<Attr("associated_token::mint", Some(<<"u">>)),
                 Attr("address", Some(<<"SOME_CONST">>))>>),
      RawField("v", AccountType,
               <<SeedsAttr(<<KeyRef("u")>>), Attr("bump", Some(<<"g", ".", "bump">>))>>),
      RawField("token_program", AccountType,
               <<Attr("associated_token::mint", Some(<<"u">>))>>),
      RawField("m", AccountType,
               <<Attr("associated_token::mint", Some(<<"u">>)),
                 SeedsAttr(<<KeyRef("u")>>), Flag("bump")>>) }

InstructionArgs == <<[name |-> "id", type_name |-> <<"u64">>]>>

\* Constraints as the extractor builds it from a struct's raw fields.
ConstraintsOf(name, instruction_args, raw) ==
    [name |-> name,
     instruction_args |-> instruction_args,
     accounts |-> [i \in 1..Len(raw) |->
                     create_account_field(raw[i].name, raw[i].type_name, raw[i].attributes)]]

Structs(fields) ==
    {ConstraintsOf("Ctx", InstructionArgs, raw) : raw \in SeqsUpTo(fields, MaxAccounts)}

(***************************************************************************)
(* The analyzers.  Each owns its Constraints, its graph and its            *)
(* constants_cache; pc and idx are its position in analyze(), hasOneTodo   *)
(* and refsTodo the references of the account being visited by Pass 2      *)
(* that are still to be applied.                                           *)
(***************************************************************************)
Analyzers == {"A", "B"}

\* The names of the accounts the first loop has reached so far.
known_accounts_Seen(a) ==
    {constraints[a].accounts[i].name
       : i \in 1..(IF idx[a] <= Len(constraints[a].accounts)
                   THEN idx[a] ELSE Len(constraints[a].accounts))}

known_accounts(a) == {constraints[a].accounts[i].name : i \in 1..Len(constraints[a].accounts)}

known_instruction_args(a) ==
    {constraints[a].instruction_args[i].name : i \in 1..Len(constraints[a].instruction_args)}

\* A first loop that ends one account early.
NumAccounts_Short(a) ==
    IF constraints[a].accounts = <<>> THEN 0 ELSE Len(constraints[a].accounts) - 1

NumAccounts(a) == Len(constraints[a].accounts)

\* The state after DefinitionAnalyzer(c) for each analyzer with input cs[a];
\* an analyzer in NoAnalyzer has not been created.
NoAnalyzer == [name |-> "", instruction_args |-> <<>>, accounts |-> <<>>]

InitWith(cs) ==
    /\ split_text = <<>> /\ split_delimiter = "," /\ split_parts = None
    /\ parse_text = <<>> /\ parse_attributes = None
    /\ siblings = <<>> /\ constraints_list = None
    /\ constraints = cs
    /\ graph = [a \in Analyzers |-> NewGraph(cs[a])]
    /\ constants_cache = [a \in Analyzers |-> {}]
    /\ pc = [a \in Analyzers |-> IF cs[a] = NoAnalyzer THEN "none" ELSE "pass1"]
    /\ idx = [a \in Analyzers |-> 1]
    /\ hasOneTodo = [a \in Analyzers |-> <<>>]
    /\ refsTodo = [a \in Analyzers |-> {}]

\* One analyzer on one struct of the general family.
Init ==
    \E c \in Structs(Fields) : InitWith([a \in Analyzers |-> IF a = "A" THEN c ELSE NoAnalyzer])

\* One iteration of the first loop of analyze() (lines 150-152); an exception
\* raised by _analyze_account ends analyze().
AnalyzeStep(a) ==
    /\ pc[a] = "pass1"
    /\ idx[a] <= NumAccounts(a)
    /\ \E out \in analyze_account(constraints[a].accounts[idx[a]], constants_cache[a],
                                  known_accounts(a), known_instruction_args(a)) :
         /\ constants_cache' = [constants_cache EXCEPT ![a] = out.cache]
         /\ IF out.exc /= NoExc
            THEN /\ pc' = [pc EXCEPT ![a] = "raised"]
                 /\ UNCHANGED <<graph, idx>>
            ELSE /\ graph' = [graph EXCEPT ![a] = add_account_definition(@, out.definition)]
                 /\ idx' = [idx EXCEPT ![a] = @ + 1]
                 /\ UNCHANGED pc
    /\ UNCHANGED <<split_text, split_delimiter, split_parts>>
    /\ UNCHANGED <<parse_text, parse_attributes, siblings, constraints_list>>
    /\ UNCHANGED <<constraints, hasOneTodo, refsTodo>>

\* Line 156: the call of _analyze_reverse_definitions after the first loop.
BeginReverse(a) ==
    /\ pc[a] = "pass1"
    /\ idx[a] > NumAccounts(a)
    /\ pc' = [pc EXCEPT ![a] = "pass2"]
    /\ idx' = [idx EXCEPT ![a] = 1]
    /\ UNCHANGED <<split_text, split_delimiter, split_parts>>
    /\ UNCHANGED <<parse_text, parse_attributes, siblings, constraints_list>>
    /\ UNCHANGED <<constraints, graph, constants_cache, hasOneTodo, refsTodo>>

\* A seeds branch of Pass 2 that applies no reference.
ReverseSeedRefs_None(account) == {}

\* The texts the seeds branch of Pass 2 iterates for an account (lines 181-185).
ReverseSeedRefs(account) ==
    IF account.seeds /= None /\ account.account_type /= "associated_token"
    THEN Range(get_references(account))
    ELSE {}

\* Line 168 with the test dropped: no account is skipped.
SkippedByReverse_Never(account) == FALSE

\* Whether Pass 2 skips the account as a defining account (line 168).
SkippedByReverse(account) == account.is_init \/ account.is_init_if_needed

\* Lines 167-173: Pass 2 reaches the next account.
ReverseVisit(a) ==
    /\ pc[a] = "pass2"
    /\ idx[a] <= NumAccounts(a)
    /\ hasOneTodo[a] = <<>> /\ refsTodo[a] = {}
    /\ LET account == constraints[a].accounts[idx[a]]
       IN  IF SkippedByReverse(account)
           THEN /\ graph' = [graph EXCEPT ![a].accounts[account.name].is_inited = TRUE]
                /\ idx' = [idx EXCEPT ![a] = @ + 1]
                /\ UNCHANGED <<hasOneTodo, refsTodo>>
           ELSE /\ hasOneTodo' = [hasOneTodo EXCEPT ![a] = account.has_one]
                /\ refsTodo' = [refsTodo EXCEPT ![a] = ReverseSeedRefs(account)]
                /\ idx' = [idx EXCEPT ![a] =
                             IF account.has_one = <<>> /\ ReverseSeedRefs(account) = {}
                             THEN @ + 1 ELSE @]
                /\ UNCHANGED graph
    /\ UNCHANGED <<split_text, split_delimiter, split_parts>>
    /\ UNCHANGED <<parse_text, parse_attributes, siblings, constraints_list>>
    /\ UNCHANGED <<constraints, constants_cache, pc>>

\* Lines 174-178: one _apply_reverse_definition call for a has_one target.
ApplyHasOne(a) ==
    /\ pc[a] = "pass2"
    /\ hasOneTodo[a] /= <<>>
    /\ LET account == constraints[a].accounts[idx[a]]
       IN  \E g \in apply_reverse_definition(graph[a], Head(hasOneTodo[a]), account.name,
                      "contains_as_has_one",
                      <<"Reverse definition: validated by has_one in non-init account '",
                        account.name, "'">>) :
             graph' = [graph EXCEPT ![a] = g]
    /\ hasOneTodo' = [hasOneTodo EXCEPT ![a] = Tail(@)]
    /\ idx' = [idx EXCEPT ![a] =
                 IF Tail(hasOneTodo[a]) = <<>> /\ refsTodo[a] = {} THEN @ + 1 ELSE @]
    /\ UNCHANGED <<split_text, split_delimiter, split_parts>>
    /\ UNCHANGED <<parse_text, parse_attributes, siblings, constraints_list>>
    /\ UNCHANGED <<constraints, constants_cache, pc, refsTodo>>

\* Lines 185-189: one _apply_reverse_definition call for a text of
\* get_references(), taken in the iteration order of list(set(references)).
ApplySeedRef(a) ==
    /\ pc[a] = "pass2"
    /\ hasOneTodo[a] = <<>>
    /\ refsTodo[a] /= {}
    /\ LET account == constraints[a].accounts[idx[a]]
       IN  \E ref \in refsTodo[a] :
             /\ \E g \in apply_reverse_definition(graph[a], ref, account.name,
                           "contains_as_seed",
                           <<"Reverse definition: used in seeds of non-init account '",
                             account.name, "'">>) :
                  graph' = [graph EXCEPT ![a] = g]
             /\ refsTodo' = [refsTodo EXCEPT ![a] = @ \ {ref}]
             /\ idx' = [idx EXCEPT ![a] = IF refsTodo[a] = {ref} THEN @ + 1 ELSE @]
    /\ UNCHANGED <<split_text, split_delimiter, split_parts>>
    /\ UNCHANGED <<parse_text, parse_attributes, siblings, constraints_list>>
    /\ UNCHANGED <<constraints, constants_cache, pc, hasOneTodo>>

\* A return that lists the constants discovered by every analyzer, as a
\* module-level constants cache would.
Finish_SharedCache(a) ==
    /\ pc[a] = "pass2"
    /\ idx[a] > NumAccounts(a)
    /\ \E order \in Orders(UNION {constants_cache[b] : b \in Analyzers}) :
         graph' = [graph EXCEPT ![a].constants = order]
    /\ pc' = [pc EXCEPT ![a] = "done"]
    /\ UNCHANGED <<split_text, split_delimiter, split_parts>>
    /\ UNCHANGED <<parse_text, parse_attributes, siblings, constraints_list>>
    /\ UNCHANGED <<constraints, constants_cache, idx, hasOneTodo, refsTodo>>

\* Lines 158-160: graph.constants = list(constants_cache); return.
Finish(a) ==
    /\ pc[a] = "pass2"
    /\ idx[a] > NumAccounts(a)
    /\ \E order \in Orders(constants_cache[a]) :
         graph' = [graph EXCEPT ![a].constants = order]
    /\ pc' = [pc EXCEPT ![a] = "done"]
    /\ UNCHANGED <<split_text, split_delimiter, split_parts>>
    /\ UNCHANGED <<parse_text, parse_attributes, siblings, constraints_list>>
    /\ UNCHANGED <<constraints, constants_cache, idx, hasOneTodo, refsTodo>>

Next ==
    \E a \in Analyzers :
       \/ AnalyzeStep(a)
       \/ BeginReverse(a)
       \/ ReverseVisit(a)
       \/ ApplyHasOne(a)
       \/ ApplySeedRef(a)
       \/ Finish(a)

Spec == Init /\ [][Next]_vars

\* The fields of the structs that are analysed twice.
FieldsTwice ==
    { RawField("u", SignerType, <<>>),
      RawField("g", SignerType, <<>>),
      RawField("v", AccountType, <<SeedsAttr(<<KeyRef("g")>>), Flag("bump")>>),
      RawField("u", AccountType, <<Attr("has_one", Some(<<"v">>))>>),
      RawField("v", AccountType,
               <<Attr("constraint",
                      Some(<<"u", ".", "key", "(", ")", " ", "==", " ",
                             "g", ".", "key", "(", ")", " ", "@", " ", "Err">>))>>) }

\* Two analyzers, each created on the same Constraints value.
InitTwice == \E c \in Structs(FieldsTwice) : InitWith([a \in Analyzers |-> c])

SpecTwice == InitTwice /\ [][Next]_vars

(***************************************************************************)
(* Structs for the rules of Pass 1: one field out of RuleFields, after     *)
(* plain accounts u and g that its expressions may or may not find.        *)
(***************************************************************************)
CustomAttr(x, y) ==
    Attr("constraint",
         Some(<<x, ".", "key", "(", ")", " ", "==", " ",
                y, ".", "key", "(", ")", " ", "@", " ", "Err">>))

Mint(x) == Attr("associated_token::mint", Some(x))

Authority(x) == Attr("associated_token::authority", Some(x))

Address == Attr("address", Some(<<"SOME_CONST">>))

SeedsRuleFields ==
    { RawField("v", AccountType, <<SeedsAttr(<<KeyRef("u")>>), Flag("bump")>>),
      RawField("v", AccountType, <<SeedsAttr(<<KeyRef("g")>>), Flag("bump")>>),
      RawField("v", AccountType, <<SeedsAttr(<<KeyRef("u"), KeyRef("g")>>), Flag("bump")>>),
      RawField("v", AccountType, <<SeedsAttr(<<Literal>>), Flag("bump")>>),
      RawField("v", AccountType, <<SeedsAttr(<<>>), Flag("bump")>>),
      RawField("v", AccountType,
               <<SeedsAttr(<<KeyRef("u")>>), Attr("bump", Some(<<"g", ".", "bump">>))>>),
      RawField("v", AccountType,
               <<SeedsAttr(<<Literal>>), Attr("bump", Some(<<"id">>))>>),
      RawField("v", AccountType,
               <<SeedsAttr(<<(<<"id", ".", "to_le_bytes", "(", ")">>)>>), Flag("bump")>>),
      RawField("v", AccountType,
               <<SeedsAttr(<<KeyRef("u")>>), Attr("bump", Some(<<"255">>))>>),
      RawField("v", AccountType, <<SeedsAttr(<<Literal>>)>>),
      RawField("v", AccountType, <<SeedsAttr(<<KeyRef("u")>>), Flag("bump"), Address>>),
      RawField("v", AccountType,
               <<SeedsAttr(<<KeyRef("g")>>), Flag("bump"), Attr("has_one", Some(<<"u">>))>>),
      RawField("v", AccountType,
               <<SeedsAttr(<<Literal>>), Flag("bump"),
                 Attr("constraint", Some(<<"u", ".", "n">>))>>),
      RawField("v", AccountType, <<SeedsAttr(<<KeyRef("v")>>), Flag("bump")>>) }

InitRuleFields ==
    { RawField("v", AccountType, <<Flag("init")>>),
      RawField("v", AccountType, <<Flag("init"), SeedsAttr(<<KeyRef("u")>>), Flag("bump")>>),
      RawField("v", AccountType, <<Flag("init"), SeedsAttr(<<KeyRef("g")>>), Flag("bump")>>),
      RawField("v", AccountType,
               <<Flag("init"), SeedsAttr(<<KeyRef("u"), KeyRef("g")>>), Flag("bump")>>),
      RawField("v", AccountType,
               <<Flag("init_if_needed"), SeedsAttr(<<Literal>>), Flag("bump")>>),
      RawField("v", AccountType, <<Flag("init"), SeedsAttr(<<>>), Flag("bump")>>),
      RawField("v", AccountType, <<Flag("init"), CustomAttr("u", "g")>>),
      RawField("v", AccountType,
               <<Flag("init"), CustomAttr("g", "g"), SeedsAttr(<<KeyRef("u")>>),
                 Flag("bump")>>),
      RawField("v", AccountType, <<Flag("init"), Address>>),
      RawField("clock", AccountType,
               <<Flag("init"), SeedsAttr(<<KeyRef("g")>>), Flag("bump")>>),
      RawField("m", AccountType, <<Flag("init"), Mint(<<"u">>), Authority(<<"u">>)>>),
      RawField("m", AccountType, <<Flag("init_if_needed"), Mint(<<"g">>)>>),
      RawField("v", AccountType,
               <<Flag("init"), SeedsAttr(<<KeyRef("g")>>), Flag("bump"),
                 Attr("has_one", Some(<<"u">>))>>) }

AssociatedTokenRuleFields ==
    { RawField("m", AccountType, <<Mint(<<"u">>)>>),
      RawField("m", AccountType, <<Mint(<<"u">>), Authority(<<"g">>)>>),
      RawField("m", AccountType, <<Mint(KeyRef("u")), Authority(<<"m">>)>>),
      RawField("m", AccountType, <<Authority(<<"g">>)>>),
      RawField("m", AccountType, <<Mint(<<>>), Authority(<<"u">>)>>),
      RawField("m", AccountType,
               <<Attr("associated_token::token_program", Some(<<"u">>))>>),
      RawField("m", AccountType, <<Attr("associated_token::other", Some(<<"u">>))>>),
      RawField("m", AccountType,
               <<Mint(<<"u">>), Authority(<<"g">>), SeedsAttr(<<KeyRef("u")>>),
                 Flag("bump")>>),
      RawField("m", AccountType, <<Mint(<<"u">>), Address>>),
      RawField("token_program", AccountType, <<Mint(<<"u">>)>>),
      RawField("m", AccountType, <<Mint(<<"m">>), Authority(<<"m">>)>>) }

OtherRuleFields ==
    { RawField("v", AccountType, <<>>),
      RawField("v", AccountType, <<CustomAttr("u", "g")>>),
      RawField("v", AccountType, <<CustomAttr("v", "v")>>),
      RawField("v", AccountType, <<CustomAttr("g", "g"), Attr("has_one", Some(<<"u">>))>>),
      RawField("v", AccountType, <<Attr("has_one", Some(<<"u">>))>>),
      RawField("rent", AccountType, <<Address>>),
      RawField("rent", AccountType, <<CustomAttr("u", "g")>>),
      RawField("v", AccountType, <<Attr("has_one", Some(<<"v">>))>>) }

RuleFields ==
    SeedsRuleFields \cup InitRuleFields \cup AssociatedTokenRuleFields \cup OtherRuleFields

ContextFields == {RawField("u", SignerType, <<>>), RawField("g", SignerType, <<>>)}

RuleStructs ==
    {ConstraintsOf("Ctx", InstructionArgs, context \o <<field>>)
       : context \in SeqsUpTo(ContextFields, MaxAccounts - 1), field \in RuleFields}

InitRules ==
    \E c \in RuleStructs : InitWith([a \in Analyzers |-> IF a = "A" THEN c ELSE NoAnalyzer])

SpecRules == InitRules /\ [][Next]_vars

(***************************************************************************)
(* _smart_split called on its own: split_text and split_delimiter are the  *)
(* arguments, split_parts the returned list once the call has been made.   *)
(***************************************************************************)
SplitChars == {"u", ",", "=", "(", ")", "<", ">", "[", "]"}

Delimiters == {",", "="}

\* a(b,c),d<e,f>,[g,h]
SplitExample ==
    <<"a", "(", "b", ",", "c", ")", ",", "d", "<", "e", ",", "f", ">", ",",
      "[", "g", ",", "h", "]">>

InitSplit ==
    /\ split_text \in SeqsUpTo(SplitChars, MaxText) \cup {SplitExample}
    /\ split_delimiter \in Delimiters
    /\ split_parts = None
    /\ parse_text = <<>> /\ parse_attributes = None
    /\ siblings = <<>> /\ constraints_list = None
    /\ constraints = [a \in Analyzers |-> NoAnalyzer]
    /\ graph = [a \in Analyzers |-> NewGraph(NoAnalyzer)]
    /\ constants_cache = [a \in Analyzers |-> {}]
    /\ pc = [a \in Analyzers |-> "none"]
    /\ idx = [a \in Analyzers |-> 1]
    /\ hasOneTodo = [a \in Analyzers |-> <<>>]
    /\ refsTodo = [a \in Analyzers |-> {}]

SmartSplit ==
    /\ split_parts = None
    /\ split_parts' = Some(smart_split(split_text, split_delimiter))
    /\ UNCHANGED <<split_text, split_delimiter>>
    /\ UNCHANGED <<parse_text, parse_attributes, siblings, constraints_list>>
    /\ UNCHANGED <<constraints, graph, constants_cache, pc, idx, hasOneTodo, refsTodo>>

NextSplit == SmartSplit

SpecSplit == InitSplit /\ [][NextSplit]_vars

(***************************************************************************)
(* _parse_account_attribute called on its own on the text of one           *)
(* #[account(...)] annotation: parse_text is the argument,                 *)
(* parse_attributes the returned list once the call has been made.  The    *)
(* opening "#[account(" and the comment mark "//" are one token each; the  *)
(* name of a parsed attribute is kept as text.                             *)
(***************************************************************************)
StartPattern == "#[account("

\* str.find / str.index for one token: the first position from i on, 0 when
\* there is none.
RECURSIVE FindFrom(_, _, _)
FindFrom(t, tok, i) ==
    IF i > Len(t) THEN 0
    ELSE IF t[i] = tok THEN i
    ELSE FindFrom(t, tok, i + 1)

\* The while loop of _extract_attribute_content: the position after the
\* loop and the count it ends with.
RECURSIVE MatchParen(_, _, _)
MatchParen(attr_text, i, paren_count) ==
    IF i <= Len(attr_text) /\ paren_count > 0
    THEN MatchParen(attr_text, i + 1,
                    IF attr_text[i] = "(" THEN paren_count + 1
                    ELSE IF attr_text[i] = ")" THEN paren_count - 1
                    ELSE paren_count)
    ELSE <<i, paren_count>>

extract_attribute_content(attr_text) ==
    LET start_idx == FindFrom(attr_text, StartPattern, 1)
    IN  IF start_idx = 0 THEN None
        ELSE LET end == MatchParen(attr_text, start_idx + 1, 1)
             IN  IF end[2] /= 0 THEN None
                 ELSE Some(SubSeq(attr_text, start_idx + 1, end[1] - 2))

\* _remove_comments: on every line, the text from "//" on is dropped.
RECURSIVE RemoveCommentsFrom(_, _)
RemoveCommentsFrom(text, inComment) ==
    IF text = <<>> THEN <<>>
    ELSE IF Head(text) = "\n" THEN <<"\n">> \o RemoveCommentsFrom(Tail(text), FALSE)
    ELSE IF inComment \/ Head(text) = "//" THEN RemoveCommentsFrom(Tail(text), TRUE)
    ELSE <<Head(text)>> \o RemoveCommentsFrom(Tail(text), FALSE)

remove_comments(text) == RemoveCommentsFrom(text, FALSE)

\* Lines 233-246 for one constraint of the split.
ParseConstraint(part) ==
    LET constraint == Strip(part)
        eq         == FindFrom(constraint, "=", 1)
    IN  IF constraint = <<>> THEN <<>>
        ELSE IF eq /= 0
        THEN <<[name  |-> Strip(SubSeq(constraint, 1, eq - 1)),
                value |-> Some(Strip(SubSeq(constraint, eq + 1, Len(constraint))))]>>
        ELSE <<[name |-> constraint, value |-> None]>>

RECURSIVE ParseConstraints(_)
ParseConstraints(parts) ==
    IF parts = <<>> THEN <<>>
    ELSE ParseConstraint(Head(parts)) \o ParseConstraints(Tail(parts))

parse_account_attribute(attr_text) ==
    LET content == extract_attribute_content(attr_text)
    IN  IF ~Truthy(content) THEN <<>>
        ELSE ParseConstraints(smart_split(remove_comments(content[1]), ","))

\* The characters of the annotations.
AttrChars == {"mut", ",", "=", "//", "(", ")", "\n"}

\* The annotation with the given text between its parentheses.
Annotation(body) == <<StartPattern>> \o body \o <<")", "]">>

\* The parentheses of the text match.
RECURSIVE Balanced(_, _)
Balanced(t, open) ==
    IF t = <<>> THEN open = 0
    ELSE IF Head(t) = "(" THEN Balanced(Tail(t), open + 1)
    ELSE IF Head(t) = ")" THEN open > 0 /\ Balanced(Tail(t), open - 1)
    ELSE Balanced(Tail(t), open)

\* The bodies of the attribute_item nodes the parser hands over: outside
\* comments the parentheses match, and a comment ends with its line before
\* the annotation is closed.
AnnotationBodies ==
    {body \in SeqsUpTo(AttrChars, MaxText) :
        /\ Balanced(remove_comments(body), 0)
        /\ remove_comments(Annotation(body)) = Annotation(remove_comments(body))}

InitParse ==
    /\ parse_text \in {Annotation(body) : body \in AnnotationBodies}
    /\ parse_attributes = None
    /\ split_text = <<>> /\ split_delimiter = "," /\ split_parts = None
    /\ siblings = <<>> /\ constraints_list = None
    /\ constraints = [a \in Analyzers |-> NoAnalyzer]
    /\ graph = [a \in Analyzers |-> NewGraph(NoAnalyzer)]
    /\ constants_cache = [a \in Analyzers |-> {}]
    /\ pc = [a \in Analyzers |-> "none"]
    /\ idx = [a \in Analyzers |-> 1]
    /\ hasOneTodo = [a \in Analyzers |-> <<>>]
    /\ refsTodo = [a \in Analyzers |-> {}]

ParseAccountAttribute ==
    /\ parse_attributes = None
    /\ parse_attributes' = Some(parse_account_attribute(parse_text))
    /\ UNCHANGED <<parse_text, siblings, constraints_list>>
    /\ UNCHANGED <<split_text, split_delimiter, split_parts>>
    /\ UNCHANGED <<constraints, graph, constants_cache, pc, idx, hasOneTodo, refsTodo>>

NextParse == ParseAccountAttribute

SpecParse == InitParse /\ [][NextParse]_vars

(***************************************************************************)
(* extract_all_constraints on the items of one file: siblings are the      *)
(* children of the root node in source order, constraints_list the         *)
(* returned list once the call has been made.  A node has its type, its    *)
(* text (the name, for a struct) and, for a struct, its raw fields.  The   *)
(* opening "#[" of an attribute is one token.                              *)
(***************************************************************************)
\* The longest list of items of a file.
MaxNodes == 4

Node(type, text, fields) == [type |-> type, text |-> text, fields |-> fields]

DeriveNode ==
    Node("attribute_item", <<"#[", "derive", "(", "Accounts", ")", "]">>, <<>>)

InstructionNode(name, type_name) ==
    Node("attribute_item",
         <<"#[", "instruction", "(", name, ":", " ", type_name, ")", "]">>, <<>>)

CommentNode == Node("line_comment", <<"//", " ", "note">>, <<>>)

StructNode == Node("struct_item", <<"Ctx">>, <<RawField("u", SignerType, <<>>)>>)

FunctionNode == Node("function_item", <<"fn">>, <<>>)

Nodes ==
    {DeriveNode, InstructionNode("id", "u64"), InstructionNode("n", "u8"),
     CommentNode, StructNode, FunctionNode}

Comments == {"line_comment", "block_comment"}

\* "word" in attr_text.
InText(word, text) == \E k \in 1..Len(text) : text[k] = word

\* _has_derive_accounts: the loop of lines 49-58 from sibling j downwards.
RECURSIVE HasDeriveFrom(_, _)
HasDeriveFrom(children, j) ==
    IF j < 1 THEN FALSE
    ELSE IF children[j].type = "attribute_item"
    THEN IF InText("derive", children[j].text) /\ InText("Accounts", children[j].text)
         THEN TRUE
         ELSE HasDeriveFrom(children, j - 1)
    ELSE IF children[j].type \notin Comments THEN FALSE
    ELSE HasDeriveFrom(children, j - 1)

has_derive_accounts(children, i) == HasDeriveFrom(children, i - 1)

\* re.search(r'#\[instruction\((.*?)\)\]', ...): the group of the first
\* match that starts at position k or later, None when there is none.
RECURSIVE FirstClose(_, _)
FirstClose(t, e) ==
    IF e + 1 > Len(t) THEN 0
    ELSE IF t[e] = ")" /\ t[e + 1] = "]" THEN e
    ELSE FirstClose(t, e + 1)

RECURSIVE SearchInstruction(_, _)
SearchInstruction(t, k) ==
    IF k + 2 > Len(t) THEN None
    ELSE IF t[k] = "#[" /\ t[k + 1] = "instruction" /\ t[k + 2] = "("
            /\ FirstClose(t, k + 3) /= 0
    THEN Some(SubSeq(t, k + 3, FirstClose(t, k + 3) - 1))
    ELSE SearchInstruction(t, k + 1)

\* Lines 128-135 for the parts of the split.
RECURSIVE InstructionArguments(_)
InstructionArguments(arg_parts) ==
    IF arg_parts = <<>> THEN <<>>
    ELSE LET part  == Strip(Head(arg_parts))
             colon == FindFrom(part, ":", 1)
         IN  (IF colon /= 0
              THEN <<[name      |-> Strip(SubSeq(part, 1, colon - 1))[1],
                      type_name |-> Strip(SubSeq(part, colon + 1, Len(part)))]>>
              ELSE <<>>)
             \o InstructionArguments(Tail(arg_parts))

extract_instruction_args(attr_text) ==
    LET match == SearchInstruction(attr_text, 1)
    IN  IF match = None THEN <<>>
        ELSE InstructionArguments(smart_split(match[1], ","))

\* _parse_instruction_args: the loop of lines 102-109 from sibling j
\* downwards.
RECURSIVE InstructionArgsFrom(_, _)
InstructionArgsFrom(children, j) ==
    IF j < 1 THEN <<>>
    ELSE IF children[j].type = "attribute_item" /\ InText("instruction", children[j].text)
    THEN extract_instruction_args(children[j].text)
    ELSE InstructionArgsFrom(children, j - 1)

parse_instruction_args(children, i) == InstructionArgsFrom(children, i - 1)

\* _parse_constraint_struct for the struct at position i.
parse_constraint_struct(children, i) ==
    ConstraintsOf(children[i].text[1], parse_instruction_args(children, i),
                  children[i].fields)

\* extract_all_constraints from position i on.
RECURSIVE ExtractFrom(_, _)
ExtractFrom(children, i) ==
    IF i > Len(children) THEN <<>>
    ELSE (IF children[i].type = "struct_item" /\ has_derive_accounts(children, i)
          THEN <<parse_constraint_struct(children, i)>>
          ELSE <<>>)
         \o ExtractFrom(children, i + 1)

extract_all_constraints(children) == ExtractFrom(children, 1)

\* The files the parser accepts: every attribute is followed, after
\* attributes and comments only, by the item it belongs to.
Files ==
    {s \in SeqsUpTo(Nodes, MaxNodes) :
        \A j \in 1..Len(s) :
           s[j].type = "attribute_item" =>
              \E k \in (j + 1)..Len(s) :
                 /\ s[k].type \in {"struct_item", "function_item"}
                 /\ \A l \in (j + 1)..(k - 1) :
                       s[l].type \in {"attribute_item"} \cup Comments}

InitExtract ==
    /\ siblings \in Files
    /\ constraints_list = None
    /\ parse_text = <<>> /\ parse_attributes = None
    /\ split_text = <<>> /\ split_delimiter = "," /\ split_parts = None
    /\ constraints = [a \in Analyzers |-> NoAnalyzer]
    /\ graph = [a \in Analyzers |-> NewGraph(NoAnalyzer)]
    /\ constants_cache = [a \in Analyzers |-> {}]
    /\ pc = [a \in Analyzers |-> "none"]
    /\ idx = [a \in Analyzers |-> 1]
    /\ hasOneTodo = [a \in Analyzers |-> <<>>]
    /\ refsTodo = [a \in Analyzers |-> {}]

ExtractAllConstraints ==
    /\ constraints_list = None
    /\ constraints_list' = Some(extract_all_constraints(siblings))
    /\ UNCHANGED <<siblings, parse_text, parse_attributes>>
    /\ UNCHANGED <<split_text, split_delimiter, split_parts>>
    /\ UNCHANGED <<constraints, graph, constants_cache, pc, idx, hasOneTodo, refsTodo>>

NextExtract == ExtractAllConstraints

SpecExtract == InitExtract /\ [][NextExtract]_vars

(***************************************************************************)
(* analyze() of one analyzer run from start to end on its own: the set of  *)
(* graphs it can return for the Constraints value c (none when it raises). *)
(***************************************************************************)
AccountNames(c) == {c.accounts[i].name : i \in 1..Len(c.accounts)}

ArgNames(c) == {c.instruction_args[i].name : i \in 1..Len(c.instruction_args)}

\* The first loop from account i on; runs are pairs of graph and cache.
RECURSIVE first_pass(_, _, _)
first_pass(c, i, runs) ==
    IF i > Len(c.accounts) THEN runs
    ELSE first_pass(c, i + 1,
           UNION {{[graph |-> add_account_definition(x.graph, out.definition),
                    cache |-> out.cache]
                     : out \in {o \in analyze_account(c.accounts[i], x.cache,
                                                      AccountNames(c), ArgNames(c))
                                  : o.exc = NoExc}}
                    : x \in runs})

\* The has_one loop of Pass 2 for one account.
RECURSIVE reverse_has_one(_, _, _)
reverse_has_one(gs, targets, account) ==
    IF targets = <<>> THEN gs
    ELSE reverse_has_one(
           UNION {apply_reverse_definition(g, Head(targets), account.name,
                     "contains_as_has_one",
                     <<"Reverse definition: validated by has_one in non-init account '",
                       account.name, "'">>) : g \in gs},
           Tail(targets), account)

\* The seeds loop of Pass 2 for one account, the texts taken in one order.
RECURSIVE reverse_seeds(_, _, _)
reverse_seeds(gs, order, account) ==
    IF order = <<>> THEN gs
    ELSE reverse_seeds(
           UNION {apply_reverse_definition(g, Head(order), account.name,
                     "contains_as_seed",
                     <<"Reverse definition: used in seeds of non-init account '",
                       account.name, "'">>) : g \in gs},
           Tail(order), account)

\* _analyze_reverse_definitions from account i on.
RECURSIVE analyze_reverse_definitions(_, _, _)
analyze_reverse_definitions(c, i, gs) ==
    IF i > Len(c.accounts) THEN gs
    ELSE
      LET account == c.accounts[i]
      IN  analyze_reverse_definitions(c, i + 1,
            IF SkippedByReverse(account)
            THEN {[g EXCEPT !.accounts[account.name].is_inited = TRUE] : g \in gs}
            ELSE UNION {reverse_seeds(reverse_has_one(gs, account.has_one, account),
                                      order, account)
                          : order \in Orders(ReverseSeedRefs(account))})

analyze(c) ==
    UNION {UNION {{[g EXCEPT !.constants = order] : order \in Orders(y.cache)}
                    : g \in analyze_reverse_definitions(c, 1, {y.graph})}
             : y \in first_pass(c, 1, {[graph |-> NewGraph(c), cache |-> {}]})}

\* The fields of the structs of the first of two analyzers that run together.
FieldsPair ==
    { RawField("u", SignerType, <<>>),
      RawField("v", AccountType, <<SeedsAttr(<<Literal, KeyRef("u")>>), Flag("bump")>>),
      RawField("u", AccountType, <<Attr("has_one", Some(<<"v">>))>>),
      RawField("v", AccountType, <<Attr("address", Some(<<"SOME_CONST">>))>>),
      RawField("u", AccountType, <<Flag("init"), Attr("payer", Some(<<"v">>))>>) }

\* The structs of the second analyzer.
StructsOther ==
    { ConstraintsOf("Other", <<>>, raw) : raw \in
        { <<RawField("u", AccountType, <<Attr("address", Some(<<"OTHER_CONST">>))>>),
            RawField("g", AccountType, <<SeedsAttr(<<KeyRef("v")>>), Flag("bump")>>)>>,
          <<RawField("v", AccountType, <<Attr("has_one", Some(<<"u">>))>>),
            RawField("u", SignerType, <<>>)>> } }

\* Two analyzers, each created on its own Constraints value.
InitPair ==
    \E cA \in Structs(FieldsPair) : \E cB \in StructsOther :
       InitWith([a \in Analyzers |-> IF a = "A" THEN cA ELSE cB])

SpecPair == InitPair /\ [][Next]_vars

(***************************************************************************)
(* Vocabulary of the properties.                                           *)
(***************************************************************************)
\* The first loop of analyze() has added every account; Pass 2 has not begun.
AfterPass1(a) == pc[a] = "pass1" /\ idx[a] > NumAccounts(a)

\* analyze() has returned the graph.
Returned(a) == pc[a] = "done"

\* The step is an iteration of the first loop that added account i's result.
Pass1Added(a, i) == pc[a] = "pass1" /\ idx[a] = i /\ idx'[a] = i + 1

AccountAt(a, i) == constraints[a].accounts[i]

Sources(definition) == Range(definition.defined_by)

HasSource(definition, source_type, connection_type, name) ==
    \E src \in Sources(definition) :
        /\ src.source_type = source_type
        /\ src.connection_type = connection_type
        /\ src.source_name = <<name>>

HasIssue(definition, issue) == issue \in Range(definition.issues)

ReverseConnections == {"contains_as_seed", "contains_as_has_one"}

\* An account that Pass 1 left without provenance and Pass 2 made DEFINED.
Upgraded(definition) ==
    /\ definition.status = "defined"
    /\ definition.defined_by /= <<>>
    /\ definition.defined_by[1].connection_type \in ReverseConnections

\* An account with a reverse provenance entry whose status Pass 2 left alone.
ReferencedNotUpgraded(definition) ==
    /\ definition.status \in {"needs_review", "incorrectly_defined"}
    /\ \E src \in Sources(definition) : src.connection_type \in ReverseConnections

\* The attributes of a field the rules of Pass 1 look at, read off the field.
HasDefaultName(account) == account.name \in default_names

HasAddress(account) == account.address /= None

HasSeedsOutsideInit(account) ==
    account.seeds /= None /\ ~account.is_init /\ ~account.is_init_if_needed

UniqueNames(a) ==
    \A i, j \in 1..NumAccounts(a) : AccountAt(a, i).name = AccountAt(a, j).name => i = j

(***************************************************************************)
(* C1.  Pass 2 is monotonic: a step of Pass 2 changes the status of an     *)
(* account only from UNDEFINED to DEFINED; an account with any other       *)
(* status keeps it, and no account is removed from the graph.              *)
(***************************************************************************)
C1_Step(a) ==
    pc[a] = "pass2" =>
      \A n \in DOMAIN graph[a].accounts :
         /\ n \in DOMAIN graph'[a].accounts
         /\ graph'[a].accounts[n].status /= graph[a].accounts[n].status
              => /\ graph[a].accounts[n].status = "undefined"
                 /\ graph'[a].accounts[n].status = "defined"

C1_ReverseMonotonic == [][\A a \in Analyzers : C1_Step(a)]_vars

\* Pass 2 has upgraded one account and has referenced, without changing its
\* status, an account that Pass 1 left NEEDS_REVIEW or INCORRECTLY_DEFINED.
C1_Witness ==
    \E a \in Analyzers :
       /\ pc[a] \in {"pass2", "done"}
       /\ \E n \in DOMAIN graph[a].accounts : Upgraded(graph[a].accounts[n])
       /\ \E n \in DOMAIN graph[a].accounts : ReferencedNotUpgraded(graph[a].accounts[n])

(***************************************************************************)
(* C2.  In every state of analyze() and in the returned graph,             *)
(* defined_count + undefined_count + needs_review_count = total_accounts.  *)
(***************************************************************************)
C2_CounterSum ==
    \A a \in Analyzers :
       graph[a].defined_count + graph[a].undefined_count + graph[a].needs_review_count
         = graph[a].total_accounts

\* A returned graph that counts a DEFINED and a needs-review account, one of
\* them upgraded by Pass 2.
C2_Witness ==
    \E a \in Analyzers :
       /\ Returned(a)
       /\ graph[a].defined_count >= 1
       /\ graph[a].needs_review_count >= 1
       /\ \E n \in DOMAIN graph[a].accounts : Upgraded(graph[a].accounts[n])

(***************************************************************************)
(* C3.  After Pass 1 and after Pass 2 the running counters equal the       *)
(* counts obtained by scanning the account map: total_accounts the number  *)
(* of entries, defined_count the DEFINED entries, undefined_count the      *)
(* UNDEFINED entries, needs_review_count the NEEDS_REVIEW,                 *)
(* PARTIALLY_DEFINED and INCORRECTLY_DEFINED entries; for every input,     *)
(* account names not being validated.                                      *)
(***************************************************************************)
CountWithStatus(g, statuses) ==
    Cardinality({n \in DOMAIN g.accounts : g.accounts[n].status \in statuses})

CountersMatchScan(g) ==
    /\ g.total_accounts = Cardinality(DOMAIN g.accounts)
    /\ g.defined_count = CountWithStatus(g, {"defined"})
    /\ g.undefined_count = CountWithStatus(g, {"undefined"})
    /\ g.needs_review_count =
         CountWithStatus(g, {"needs_review", "partially_defined", "incorrectly_defined"})

C3_CountersMatchScan ==
    \A a \in Analyzers : (AfterPass1(a) \/ Returned(a)) => CountersMatchScan(graph[a])

(***************************************************************************)
(* C4.  Two runs of analyze() on the same Constraints value return the     *)
(* same accounts: the same statuses, the same provenance entries in the    *)
(* same order and the same issues in the same order.                       *)
(***************************************************************************)
C4_SameOutput ==
    (Returned("A") /\ Returned("B") /\ constraints["A"] = constraints["B"])
      => graph["A"].accounts = graph["B"].accounts

(***************************************************************************)
(* C5.  Seeds end-to-end.  U is field i and V field j of the struct.       *)
(***************************************************************************)
\* U has no default name, address, seeds, associated-token attribute, custom
\* constraint or init flag.
Unconstrained(account) ==
    /\ ~HasDefaultName(account)
    /\ account.address = None
    /\ account.seeds = None
    /\ account.associated_token = None
    /\ account.account_type /= "associated_token"
    /\ account.custom_constraints = <<>>
    /\ ~account.is_init /\ ~account.is_init_if_needed

\* The identifiers the resolver extracts from the seed expressions of V.
SeedIdentifiers(account) ==
    IF account.seeds = None THEN {}
    ELSE UNION {{r.name : r \in ExtractReferences(account.seeds[1].seeds[k])}
                  : k \in 1..Len(account.seeds[1].seeds)}

\* The identifiers of the bump expression of V, the token bump left out.
BumpIdentifiers(account) ==
    IF account.seeds = None \/ account.seeds[1].bump = None THEN {}
    ELSE {r.name : r \in ExtractReferences(account.seeds[1].bump[1])} \ {"bump"}

Resolves(a, names) == names \subseteq known_accounts(a) \cup known_instruction_args(a)

C5_Case(a, i, j) ==
    /\ i /= j
    /\ AccountAt(a, i).name /= AccountAt(a, j).name
    /\ Unconstrained(AccountAt(a, i))
    /\ ~SkippedByReverse(AccountAt(a, j))
    /\ AccountAt(a, j).account_type /= "associated_token"
    /\ AccountAt(a, i).name \in SeedIdentifiers(AccountAt(a, j))

\* What the claim says of U after Pass 1 and after Pass 2.
C5_Referenced(a, i, j) ==
    LET U == AccountAt(a, i).name
        V == AccountAt(a, j).name
    IN  /\ AfterPass1(a) =>
             /\ graph[a].accounts[U].status = "undefined"
             /\ HasIssue(graph[a].accounts[U], IssueNotDefined)
        /\ Returned(a) =>
             /\ graph[a].accounts[U].status = "defined"
             /\ HasSource(graph[a].accounts[U], "account", "contains_as_seed", V)
             /\ ~HasIssue(graph[a].accounts[U], IssueNotDefined)

\* What the claim says of V after Pass 1.
C5_Defining(a, i, j) ==
    LET U == AccountAt(a, i).name
        V == AccountAt(a, j).name
    IN  AfterPass1(a) =>
          /\ graph[a].accounts[V].status = "defined"
          /\ HasSource(graph[a].accounts[V], "account", "seed", U)

NameBorneOnce(a, i) ==
    \A k \in 1..NumAccounts(a) : AccountAt(a, k).name = AccountAt(a, i).name => k = i

DefaultOnly(definition) ==
    /\ definition.status = "defined"
    /\ Len(definition.defined_by) = 1
    /\ definition.defined_by[1].source_type = "default"
    /\ definition.issues = <<>>

C6_Step(a) ==
    \A i \in 1..NumAccounts(a) :
       (Pass1Added(a, i) /\ HasDefaultName(AccountAt(a, i)))
         => DefaultOnly(graph'[a].accounts[AccountAt(a, i).name])

C6_DefaultDefined == [][\A a \in Analyzers : C6_Step(a)]_vars

\* Pass 1 has classified a default-named field that carries a seeds
\* constraint.
C6_Witness ==
    \E a \in Analyzers : \E i \in 1..NumAccounts(a) :
       /\ pc[a] = "pass1" /\ idx[a] > i
       /\ HasDefaultName(AccountAt(a, i))
       /\ AccountAt(a, i).seeds /= None
       /\ DefaultOnly(graph[a].accounts[AccountAt(a, i).name])

(***************************************************************************)
(* C7.  Address constraints.                                               *)
(***************************************************************************)
HasAddressSource(definition) ==
    /\ definition.status = "defined"
    /\ \E src \in Sources(definition) : src.source_type = "address"

Occurrences(list, x) == Cardinality({k \in 1..Len(list) : list[k] = x})

\* The iteration of Pass 1 that classifies field i adds a DEFINED definition
\* with an address provenance entry, and the graph analyze() returns lists
\* the field's address expression exactly once.
AddressCaptured(a, i) ==
    /\ Pass1Added(a, i) => HasAddressSource(graph'[a].accounts[AccountAt(a, i).name])
    /\ (~Returned(a) /\ Returned(a)')
         => Occurrences(graph'[a].constants, AccountAt(a, i).address[1]) = 1

\* C7 as stated: every field with an address constraint.
C7_AddressCapture ==
    [][\A a \in Analyzers : \A i \in 1..NumAccounts(a) :
          HasAddress(AccountAt(a, i)) => AddressCaptured(a, i)]_vars

\* C7 amended: every field with an address constraint whose name is not in
\* the default set.
C7_AddressCaptureNonDefault ==
    [][\A a \in Analyzers : \A i \in 1..NumAccounts(a) :
          (HasAddress(AccountAt(a, i)) /\ ~HasDefaultName(AccountAt(a, i)))
            => AddressCaptured(a, i)]_vars

\* analyze() has returned for a struct with two fields of different names,
\* neither a default name, that use the same address expression, which the
\* constants list holds once.
C7_Witness ==
    \E a \in Analyzers : \E i, j \in 1..NumAccounts(a) :
       /\ Returned(a)
       /\ AccountAt(a, i).name /= AccountAt(a, j).name
       /\ HasAddress(AccountAt(a, i)) /\ ~HasDefaultName(AccountAt(a, i))
       /\ HasAddress(AccountAt(a, j)) /\ ~HasDefaultName(AccountAt(a, j))
       /\ AccountAt(a, i).address = AccountAt(a, j).address
       /\ HasAddressSource(graph[a].accounts[AccountAt(a, i).name])
       /\ HasAddressSource(graph[a].accounts[AccountAt(a, j).name])
       /\ Occurrences(graph[a].constants, AccountAt(a, i).address[1]) = 1

(***************************************************************************)
(* C8.  Associated token with a mint and without an authority.             *)
(***************************************************************************)
MintWithoutAuthority(account) ==
    /\ account.account_type = "associated_token"
    /\ account.associated_token /= None
    /\ account.associated_token[1].mint /= None
    /\ account.associated_token[1].authority = None

MissingAuthorityReported(definition) ==
    /\ definition.status = "incorrectly_defined"
    /\ HasIssue(definition, IssueMissingAuthority)

\* C8 as stated: the iteration of Pass 1 that classifies an associated-token
\* field with a mint and without an authority adds an INCORRECTLY_DEFINED
\* definition whose issues name the missing authority constraint.
C8_MissingAuthority ==
    [][\A a \in Analyzers : \A i \in 1..NumAccounts(a) :
          (Pass1Added(a, i) /\ MintWithoutAuthority(AccountAt(a, i)))
            => MissingAuthorityReported(graph'[a].accounts[AccountAt(a, i).name])]_vars

\* C8 amended: the same, for a field that has no default name, no address
\* constraint and no seeds constraint outside init / init_if_needed.
C8_MissingAuthorityByRule ==
    [][\A a \in Analyzers : \A i \in 1..NumAccounts(a) :
          ( /\ Pass1Added(a, i)
            /\ MintWithoutAuthority(AccountAt(a, i))
            /\ ~HasDefaultName(AccountAt(a, i))
            /\ ~HasAddress(AccountAt(a, i))
            /\ ~HasSeedsOutsideInit(AccountAt(a, i)) )
            => MissingAuthorityReported(graph'[a].accounts[AccountAt(a, i).name])]_vars

\* Pass 1 has classified an associated-token field with a resolved mint and
\* no authority by the associated-token rule.
C8_Witness ==
    \E a \in Analyzers : \E i \in 1..NumAccounts(a) :
       /\ pc[a] = "pass1" /\ idx[a] > i
       /\ MintWithoutAuthority(AccountAt(a, i))
       /\ ~HasDefaultName(AccountAt(a, i))
       /\ ~HasAddress(AccountAt(a, i))
       /\ ~HasSeedsOutsideInit(AccountAt(a, i))
       /\ MissingAuthorityReported(graph[a].accounts[AccountAt(a, i).name])
       /\ \E src \in Sources(graph[a].accounts[AccountAt(a, i).name]) :
             src.connection_type = "AT_mint"

(***************************************************************************)
(* C9.  analyze() raises no exception, and the graph it returns holds a    *)
(* status for every account of the struct.                                 *)
(***************************************************************************)
C9_NoException ==
    \A a \in Analyzers :
       /\ pc[a] /= "raised"
       /\ Returned(a) =>
            \A i \in 1..NumAccounts(a) :
               /\ AccountAt(a, i).name \in DOMAIN graph[a].accounts
               /\ graph[a].accounts[AccountAt(a, i).name].status \in DefinitionStatus

(***************************************************************************)
(* C10.  Every identifier of a seed, bump or custom-constraint expression  *)
(* that names neither an account nor an instruction argument produces an   *)
(* issue of the owning account, for an account analysed by the seeds rule  *)
(* or the custom-constraint rule.  The lone token bump of a bump           *)
(* expression, which seeds analysis skips as noise, is not counted.        *)
(***************************************************************************)
AnalysedBySeeds(account) ==
    /\ ~HasDefaultName(account)
    /\ ~HasAddress(account)
    /\ HasSeedsOutsideInit(account)

AnalysedByCustom(account) ==
    /\ ~HasDefaultName(account)
    /\ ~HasAddress(account)
    /\ ~HasSeedsOutsideInit(account)
    /\ account.account_type /= "associated_token"
    /\ account.custom_constraints /= <<>>

CustomIdentifiers(account) ==
    UNION {{r.name : r \in ExtractReferences(account.custom_constraints[k].expression)}
             : k \in 1..Len(account.custom_constraints)}

\* The identifiers the rule that analyses the account resolves.
AnalysedIdentifiers(account) ==
    IF AnalysedBySeeds(account)
    THEN SeedIdentifiers(account) \cup BumpIdentifiers(account)
    ELSE IF AnalysedByCustom(account) THEN CustomIdentifiers(account)
    ELSE {}

\* An issue text that names the identifier.
Mentions(issue, name) == \E k \in 1..Len(issue) : issue[k] = name

C10_Step(a) ==
    \A i \in 1..NumAccounts(a) :
       Pass1Added(a, i) =>
         \A name \in AnalysedIdentifiers(AccountAt(a, i))
                       \ (known_accounts(a) \cup known_instruction_args(a)) :
            \E issue \in Range(graph'[a].accounts[AccountAt(a, i).name].issues) :
               Mentions(issue, name)

C10_UnresolvedBecomeIssues == [][\A a \in Analyzers : C10_Step(a)]_vars

(***************************************************************************)
(* Vocabulary of the steps of Pass 2.                                      *)
(***************************************************************************)
\* The step is one _apply_reverse_definition call of analyzer a.
AppliesHasOne(a) ==
    pc[a] = "pass2" /\ hasOneTodo[a] /= <<>> /\ hasOneTodo'[a] = Tail(hasOneTodo[a])

AppliesSeedRef(a) ==
    pc[a] = "pass2" /\ hasOneTodo[a] = <<>> /\ refsTodo[a] /= {}
      /\ refsTodo'[a] /= refsTodo[a]

AppliesReverse(a) == AppliesHasOne(a) \/ AppliesSeedRef(a)

\* The text the call is made with, its connection type and the account that
\* Pass 2 is visiting.
AppliedText(a) ==
    IF hasOneTodo[a] /= <<>> THEN Head(hasOneTodo[a])
    ELSE CHOOSE ref \in refsTodo[a] : refsTodo'[a] = refsTodo[a] \ {ref}

AppliedConnection(a) ==
    IF hasOneTodo[a] /= <<>> THEN "contains_as_has_one" ELSE "contains_as_seed"

Visited(a) == AccountAt(a, idx[a])

\* The references of the call other than the visited account itself, and
\* those of them that name no account of the graph.
AppliedRefs(a) == {r \in ExtractReferences(AppliedText(a)) : r.name /= Visited(a).name}

MissingRefs(a) == {r \in AppliedRefs(a) : r.name \notin DOMAIN graph[a].accounts}

Statuses(g) == [n \in DOMAIN g.accounts |-> g.accounts[n].status]

Counters(g) ==
    <<g.total_accounts, g.defined_count, g.undefined_count, g.needs_review_count>>

IsPrefix(s, t) == Len(s) <= Len(t) /\ \A k \in 1..Len(s) : s[k] = t[k]

(***************************************************************************)
(* C11.  A Pass-2 call for a has_one target or seeds text of the visited   *)
(* account A appends, for each of its references that names no account of  *)
(* the graph, one "wasn't found in the graph" issue to A's issues and      *)
(* creates no map entry; when none of its references names an account of   *)
(* the graph, no status and no counter changes; and the pass goes on.      *)
(***************************************************************************)
C11_Step(a) ==
    AppliesReverse(a) =>
      LET A      == Visited(a).name
          before == graph[a].accounts[A].issues
          after  == graph'[a].accounts[A].issues
      IN  /\ DOMAIN graph'[a].accounts = DOMAIN graph[a].accounts
          /\ IsPrefix(before, after)
          /\ Len(after) = Len(before) + Cardinality(MissingRefs(a))
          /\ \A r \in MissingRefs(a) :
                \E k \in (Len(before) + 1)..Len(after) :
                   after[k] = IssueNotInGraph(r.name, AppliedConnection(a))
          /\ MissingRefs(a) = AppliedRefs(a) =>
                /\ Statuses(graph'[a]) = Statuses(graph[a])
                /\ Counters(graph'[a]) = Counters(graph[a])
          /\ pc'[a] = "pass2"

C11_MissingReference == [][\A a \in Analyzers : C11_Step(a)]_vars

\* analyze() has returned after Pass 2 recorded a missing has_one target and
\* a missing seeds reference, each on the account that named it.
C11_Witness ==
    \E a \in Analyzers :
       /\ Returned(a)
       /\ \E n \in DOMAIN graph[a].accounts : \E x \in LowerIdents \ {"bump"} :
             HasIssue(graph[a].accounts[n], IssueNotInGraph(x, "contains_as_has_one"))
       /\ \E n \in DOMAIN graph[a].accounts : \E x \in LowerIdents \ {"bump"} :
             HasIssue(graph[a].accounts[n], IssueNotInGraph(x, "contains_as_seed"))

(***************************************************************************)
(* C12.  A step that changes the accounts of the graph without adding a    *)
(* Pass-1 result (a status upgrade, a provenance append, an issue append   *)
(* or an is_inited mark of Pass 2) happens only when every account of the  *)
(* struct has received its Pass-1 result and is in the graph.              *)
(***************************************************************************)
\* Every account of the struct has been added to the graph.
AllAdded(a) ==
    /\ graph[a].total_accounts = Len(constraints[a].accounts)
    /\ \A i \in 1..Len(constraints[a].accounts) :
          constraints[a].accounts[i].name \in DOMAIN graph[a].accounts

\* The step changes the accounts of the graph and adds none.
ReverseEffect(a) ==
    /\ graph'[a].accounts /= graph[a].accounts
    /\ graph'[a].total_accounts = graph[a].total_accounts

C12_Step(a) == ReverseEffect(a) => AllAdded(a)

C12_ReverseAfterPass1 == [][\A a \in Analyzers : C12_Step(a)]_vars

\* Pass 2 is under way on a struct of two accounts, both in the graph, and
\* has upgraded one of them.
C12_Witness ==
    \E a \in Analyzers :
       /\ pc[a] = "pass2"
       /\ Len(constraints[a].accounts) >= 2
       /\ AllAdded(a)
       /\ \E n \in DOMAIN graph[a].accounts : Upgraded(graph[a].accounts[n])

(***************************************************************************)
(* C13.  With the steps of two analyzers on two Constraints values         *)
(* interleaved in any order, the graph an analyzer returns is one of the   *)
(* graphs it returns for its Constraints value when it runs alone.         *)
(***************************************************************************)
C13_Independent == \A a \in Analyzers : Returned(a) => graph[a] \in analyze(constraints[a])

\* Both analyzers have returned, each with an account of the same name in a
\* different status and with a constant the other has not discovered.
C13_Witness ==
    /\ Returned("A") /\ Returned("B")
    /\ \E n \in DOMAIN graph["A"].accounts \cap DOMAIN graph["B"].accounts :
          graph["A"].accounts[n].status /= graph["B"].accounts[n].status
    /\ graph["A"].constants /= <<>>
    /\ graph["B"].constants /= <<>>
    /\ Range(graph["A"].constants) \cap Range(graph["B"].constants) = {}

(***************************************************************************)
(* C14.  _smart_split cuts the text exactly at the delimiter occurrences   *)
(* that stand at nesting depth zero of square brackets, parentheses and    *)
(* angle brackets, and nowhere else: the returned parts are the pieces of  *)
(* the text between those occurrences (an empty piece after the last one   *)
(* is not returned), so a(b,c),d<e,f>,[g,h] gives a(b,c) d<e,f> [g,h].     *)
(***************************************************************************)
\* The number of brackets of one kind that are open before position i: a
\* closing bracket closes the innermost open one, if there is one.
RECURSIVE NestingDepth(_, _, _, _)
NestingDepth(t, i, open, close) ==
    IF i <= 1 THEN 0
    ELSE LET d == NestingDepth(t, i - 1, open, close)
         IN  IF t[i - 1] = open THEN d + 1
             ELSE IF t[i - 1] = close /\ d > 0 THEN d - 1
             ELSE d

AtDepthZero(t, i) ==
    /\ NestingDepth(t, i, "[", "]") = 0
    /\ NestingDepth(t, i, "(", ")") = 0
    /\ NestingDepth(t, i, "<", ">") = 0

CutPositions(t, d) == {i \in 1..Len(t) : t[i] = d /\ AtDepthZero(t, i)}

\* The pieces of t from position i on, cut at the positions of cuts.
RECURSIVE PiecesFrom(_, _, _, _)
PiecesFrom(t, i, cuts, current) ==
    IF i > Len(t) THEN IF current /= <<>> THEN <<current>> ELSE <<>>
    ELSE IF i \in cuts THEN <<current>> \o PiecesFrom(t, i + 1, cuts, <<>>)
    ELSE PiecesFrom(t, i + 1, cuts, Append(current, t[i]))

C14_SmartSplit ==
    split_parts /= None =>
      split_parts[1] = PiecesFrom(split_text, 1,
                                  CutPositions(split_text, split_delimiter), <<>>)

(***************************************************************************)
(* C15.  The definition an iteration of Pass 1 adds for an account is a    *)
(* result of the first applicable rule, applied to a fresh definition, in  *)
(* the order: default name; address; seeds outside init; associated-token  *)
(* type; custom constraints with a reference to another known account;     *)
(* init / init_if_needed; else UNDEFINED with the "not defined" issue.     *)
(* No other rule adds provenance or issues.                                *)
(***************************************************************************)
\* Some custom constraint of the account names another known account.
CustomResolves(account, known) ==
    \E name \in CustomIdentifiers(account) : name \in known /\ name /= account.name

DecidingRule(account, known) ==
    IF HasDefaultName(account) THEN "default"
    ELSE IF HasAddress(account) THEN "address"
    ELSE IF HasSeedsOutsideInit(account) THEN "seeds"
    ELSE IF account.account_type = "associated_token" THEN "associated_token"
    ELSE IF CustomResolves(account, known) THEN "custom"
    ELSE IF account.is_init \/ account.is_init_if_needed THEN "init"
    ELSE "none"

\* A fresh definition in the hands of one rule.
Fresh(account) ==
    [definition |-> NewDefinition(account), cache |-> {}, exc |-> NoExc,
     valid |-> TRUE, added |-> {}]

\* The definitions the rule can give the account.
RuleResults(rule, account, known, args) ==
    CASE rule = "default" ->
           {[NewDefinition(account) EXCEPT
               !.status = "defined",
               !.defined_by = <<DefinitionSource("default", "default", <<account.name>>,
                                   None, <<"System program or standard account">>)>>]}
      [] rule = "address" ->
           {[NewDefinition(account) EXCEPT
               !.status = "defined",
               !.defined_by = <<DefinitionSource("address", "address", account.address[1],
                                   None, <<"Fixed address constraint">>)>>]}
      [] rule = "seeds" ->
           {x.definition : x \in analyze_seeds_definition(account, Fresh(account),
                                                          known, args)}
      [] rule = "associated_token" ->
           {x.definition : x \in analyze_associated_token(account, Fresh(account), known)}
      [] rule = "custom" ->
           {x.definition : x \in analyze_custom_constraints(account, Fresh(account), known)}
      [] rule = "init" ->
           {x.definition : x \in analyze_initialized_account(account, Fresh(account),
                                                             known, args)}
      [] OTHER ->
           {[NewDefinition(account) EXCEPT !.status = "undefined",
                                           !.issues = <<IssueNotDefined>>]}

C15_Step(a) ==
    \A i \in 1..NumAccounts(a) :
       Pass1Added(a, i) =>
         graph'[a].accounts[AccountAt(a, i).name]
           \in RuleResults(DecidingRule(AccountAt(a, i), known_accounts(a)),
                           AccountAt(a, i), known_accounts(a), known_instruction_args(a))

C15_FirstRuleDecides == [][\A a \in Analyzers : C15_Step(a)]_vars

\* Pass 1 has classified an account with an address and seeds, and the result
\* carries one provenance entry, that of the address rule, and no issue.
C15_Witness ==
    \E a \in Analyzers : \E i \in 1..NumAccounts(a) :
       /\ pc[a] = "pass1" /\ idx[a] > i
       /\ HasAddress(AccountAt(a, i))
       /\ HasSeedsOutsideInit(AccountAt(a, i))
       /\ ~HasDefaultName(AccountAt(a, i))
       /\ Len(graph[a].accounts[AccountAt(a, i).name].defined_by) = 1
       /\ graph[a].accounts[AccountAt(a, i).name].defined_by[1].source_type = "address"
       /\ graph[a].accounts[AccountAt(a, i).name].issues = <<>>

(***************************************************************************)
(* C16.  The status seeds analysis ends with, for an account the seeds     *)
(* rule decides.                                                           *)
(***************************************************************************)
SeedTexts(account) == Range(account.seeds[1].seeds)

\* Every identifier of the bump expression, the token bump included.
AllBumpIdentifiers(account) ==
    IF account.seeds = None \/ account.seeds[1].bump = None THEN {}
    ELSE {r.name : r \in ExtractReferences(account.seeds[1].bump[1])}

\* The analysis has something to record as provenance: a seed or bump
\* without identifiers (a constant), or an identifier that names an account
\* or an instruction argument (the token bump of the bump expression aside).
ProducesProvenance(a, account) ==
    \/ \E seed \in SeedTexts(account) : ExtractReferences(seed) = {}
    \/ \E name \in SeedIdentifiers(account) :
          name \in known_accounts(a) \cup known_instruction_args(a)
    \/ account.seeds[1].bump /= None /\ AllBumpIdentifiers(account) = {}
    \/ \E name \in BumpIdentifiers(account) :
          name \in known_accounts(a) \cup known_instruction_args(a)

\* The status is DEFINED iff provenance was produced and the identifiers
\* of names resolve, NEEDS_REVIEW iff provenance was produced and one of
\* them does not, UNDEFINED iff no provenance was produced.
SeedsStatusBy(a, definition, account, names) ==
    /\ (definition.defined_by /= <<>>) <=> ProducesProvenance(a, account)
    /\ (definition.status = "defined")
         <=> (ProducesProvenance(a, account) /\ Resolves(a, names))
    /\ (definition.status = "needs_review")
         <=> (ProducesProvenance(a, account) /\ ~Resolves(a, names))
    /\ (definition.status = "undefined") <=> ~ProducesProvenance(a, account)

AnalysedByAssociatedToken(a, account) ==
    DecidingRule(account, known_accounts(a)) = "associated_token"

MintAndAuthorityPresent(account) ==
    /\ account.associated_token /= None
    /\ account.associated_token[1].mint /= None
    /\ account.associated_token[1].authority /= None

\* The expression is not empty and one of its identifiers names an account.
ResolvesToAccount(a, expr) ==
    /\ expr /= None
    /\ expr[1] /= <<>>
    /\ \E r \in ExtractReferences(expr[1]) : r.name \in known_accounts(a)

C17_Step(a, account, definition) ==
    /\ MintAndAuthorityPresent(account) =>
         ((definition.issues = <<>>)
            <=> /\ ResolvesToAccount(a, account.associated_token[1].mint)
                /\ ResolvesToAccount(a, account.associated_token[1].authority))
    /\ (definition.status = "defined")
         <=> (MintAndAuthorityPresent(account) /\ definition.issues = <<>>)
    /\ (definition.status = "needs_review")
         <=> (MintAndAuthorityPresent(account) /\ Len(definition.issues) >= 1)
    /\ (definition.status = "incorrectly_defined")
         <=> ~MintAndAuthorityPresent(account)

\* C17: for an account the associated-token rule decides, the status is
\* DEFINED iff mint and authority are both present and no issue was
\* recorded (each resolves to a known account), NEEDS_REVIEW iff both are
\* present and an issue was recorded, INCORRECTLY_DEFINED iff mint or
\* authority is absent.
C17_AssociatedTokenStatus ==
    [][\A a \in Analyzers : \A i \in 1..NumAccounts(a) :
          (Pass1Added(a, i) /\ AnalysedByAssociatedToken(a, AccountAt(a, i))) =>
            C17_Step(a, AccountAt(a, i), graph'[a].accounts[AccountAt(a, i).name])]_vars

\* The associated-token rule has left an account NEEDS_REVIEW: mint and
\* authority are both present, the mint names an account, the authority
\* does not.
C17_Witness ==
    \E a \in Analyzers : \E i \in 1..NumAccounts(a) :
       /\ pc[a] = "pass1" /\ idx[a] > i
       /\ AnalysedByAssociatedToken(a, AccountAt(a, i))
       /\ MintAndAuthorityPresent(AccountAt(a, i))
       /\ ResolvesToAccount(a, AccountAt(a, i).associated_token[1].mint)
       /\ ~ResolvesToAccount(a, AccountAt(a, i).associated_token[1].authority)
       /\ graph[a].accounts[AccountAt(a, i).name].status = "needs_review"

(***************************************************************************)
(* C18.  Where the provenance and the issues of Pass 2 come from.          *)
(***************************************************************************)
HasOneIdentifiers(account) ==
    UNION {{r.name : r \in ExtractReferences(account.has_one[k])}
             : k \in 1..Len(account.has_one)}

\* The accounts of the struct that bear the name.
Named(a, name) == {account \in Range(constraints[a].accounts) : account.name = name}

\* X is named in a seed expression or in the bump expression of an account
\* called V.
InSeedsOrBumpOf(a, V, X) ==
    \E account \in Named(a, V) :
        X \in SeedIdentifiers(account) \cup AllBumpIdentifiers(account)

IsHasOneTargetOf(a, V, X) ==
    \E account \in Named(a, V) : X \in HasOneIdentifiers(account)

\* C18: a contains_as_seed entry from V on X exists only if X is named in a
\* seed expression or the bump expression of V, a contains_as_has_one entry
\* only if X is a has_one target of V, and a contains_as_seed "wasn't found
\* in the graph" issue on V names only identifiers of V's seed and bump
\* expressions: has_one targets, payer, associated-token expressions and
\* custom-constraint text produce neither.
C18_ReverseProvenance ==
    \A a \in Analyzers : pc[a] \in {"pass2", "done"} =>
       \A X \in DOMAIN graph[a].accounts :
          /\ \A src \in Sources(graph[a].accounts[X]) :
                /\ src.connection_type = "contains_as_seed"
                     => InSeedsOrBumpOf(a, src.source_name[1], X)
                /\ src.connection_type = "contains_as_has_one"
                     => IsHasOneTargetOf(a, src.source_name[1], X)
          /\ \A name \in LowerIdents :
                HasIssue(graph[a].accounts[X], IssueNotInGraph(name, "contains_as_seed"))
                  => InSeedsOrBumpOf(a, X, name)

(***************************************************************************)
(* C19.  Pass 2 and the accounts being initialized.                        *)
(***************************************************************************)
BeingInitialized(account) == account.is_init \/ account.is_init_if_needed

\* Pass 2 of analyzer a stands at an account being initialized.
VisitsInitialized(a) ==
    /\ pc[a] = "pass2"
    /\ idx[a] <= Len(constraints[a].accounts)
    /\ BeingInitialized(Visited(a))

\* The step is a step of analyzer a.
StepOf(a) ==
    <<graph'[a], idx'[a], hasOneTodo'[a], refsTodo'[a], pc'[a]>>
      /= <<graph[a], idx[a], hasOneTodo[a], refsTodo[a], pc[a]>>

\* Visiting an account being initialized sets its is_inited flag and
\* nothing else, and leaves nothing to apply.
C19_Step(a) ==
    (VisitsInitialized(a) /\ StepOf(a)) =>
       /\ graph'[a] = [graph[a] EXCEPT !.accounts[Visited(a).name].is_inited = TRUE]
       /\ hasOneTodo'[a] = <<>> /\ refsTodo'[a] = {}
       /\ idx'[a] = idx[a] + 1
       /\ pc'[a] = "pass2"

PayerIdentifiers(account) ==
    IF account.payer = None THEN {}
    ELSE {r.name : r \in ExtractReferences(account.payer[1])}

\* The account names X in its seeds, bump, has_one, custom constraints or
\* payer.
RefersTo(account, X) ==
    X \in SeedIdentifiers(account) \cup AllBumpIdentifiers(account)
            \cup HasOneIdentifiers(account) \cup CustomIdentifiers(account)
            \cup PayerIdentifiers(account)

\* Account i is UNDEFINED after Pass 1 (no rule applies to it), its name is
\* borne once, an account being initialized names it as has_one target or in
\* its seeds, and no other account names it.
ReferencedOnlyByInitialized(a, i) ==
    /\ Unconstrained(AccountAt(a, i))
    /\ \A k \in 1..Len(constraints[a].accounts) :
          AccountAt(a, k).name = AccountAt(a, i).name => k = i
    /\ \E k \in 1..Len(constraints[a].accounts) :
          /\ BeingInitialized(AccountAt(a, k))
          /\ AccountAt(a, i).name \in SeedIdentifiers(AccountAt(a, k))
                                        \cup HasOneIdentifiers(AccountAt(a, k))
    /\ \A k \in 1..Len(constraints[a].accounts) :
          RefersTo(AccountAt(a, k), AccountAt(a, i).name)
            => BeingInitialized(AccountAt(a, k))

C19_Kept(a) ==
    \A i \in 1..Len(constraints[a].accounts) :
       (pc[a] \in {"pass2", "done"} /\ ReferencedOnlyByInitialized(a, i)) =>
          LET definition == graph[a].accounts[AccountAt(a, i).name]
          IN  /\ definition.status = "undefined"
              /\ \A src \in Sources(definition) :
                    src.connection_type \notin {"contains_as_seed", "contains_as_has_one"}

\* C19: an account with is_init or is_init_if_needed is skipped by Pass 2 as
\* a defining account: the visit sets its own is_inited flag and changes
\* nothing else (no upgrade, no provenance, no issue), and an account
\* referenced only by accounts being initialized keeps its Pass-1 status.
C19_InitializedSkipped ==
    /\ [][\A a \in Analyzers : C19_Step(a)]_vars
    /\ [](\A a \in Analyzers : C19_Kept(a))

\* analyze() has returned: an account being initialized that has seeds and
\* names u as has_one target is marked is_inited, and u, which no other
\* account names, is still UNDEFINED.
C19_Witness ==
    \E a \in Analyzers : \E i, k \in 1..Len(constraints[a].accounts) :
       /\ Returned(a)
       /\ ReferencedOnlyByInitialized(a, i)
       /\ BeingInitialized(AccountAt(a, k))
       /\ AccountAt(a, k).seeds /= None
       /\ AccountAt(a, i).name \in HasOneIdentifiers(AccountAt(a, k))
       /\ graph[a].accounts[AccountAt(a, k).name].is_inited
       /\ graph[a].accounts[AccountAt(a, i).name].status = "undefined"

(***************************************************************************)
(* C20.  The Pass-1 result of an account being initialized.                *)
(***************************************************************************)
\* The definitions seeds analysis gives the account, started afresh.
SeedsResults(a, account) ==
    {x.definition : x \in analyze_seeds_definition(account, Fresh(account),
                                                   known_accounts(a),
                                                   known_instruction_args(a))}

C20_Step(a, account, definition) ==
    /\ definition.status /= "undefined"
    /\ DecidingRule(account, known_accounts(a)) = "init" =>
         IF account.seeds /= None /\ ProducesProvenance(a, account)
         THEN /\ definition \in SeedsResults(a, account)
              /\ definition.defined_by /= <<>>
         ELSE /\ definition.status = "incorrectly_defined"
              /\ definition.defined_by = <<>>
              /\ HasIssue(definition, IssueInitNoSeeds)

\* C20: an account with is_init or is_init_if_needed is never UNDEFINED
\* after Pass 1; when the init rule decides, its result is the result of
\* seeds analysis if that produced provenance, and otherwise
\* INCORRECTLY_DEFINED with the issue "Account has init/init_if_needed but
\* no seeds or associated_token constraints".
C20_InitializedNeverUndefined ==
    [][\A a \in Analyzers : \A i \in 1..NumAccounts(a) :
          (Pass1Added(a, i) /\ BeingInitialized(AccountAt(a, i))) =>
            C20_Step(a, AccountAt(a, i), graph'[a].accounts[AccountAt(a, i).name])]_vars

\* The init rule has decided an account whose seeds name only an unknown
\* identifier: no provenance, INCORRECTLY_DEFINED with the issue.
C20_Witness ==
    \E a \in Analyzers : \E i \in 1..NumAccounts(a) :
       /\ pc[a] = "pass1" /\ idx[a] > i
       /\ BeingInitialized(AccountAt(a, i))
       /\ DecidingRule(AccountAt(a, i), known_accounts(a)) = "init"
       /\ AccountAt(a, i).seeds /= None
       /\ SeedIdentifiers(AccountAt(a, i)) /= {}
       /\ ~ProducesProvenance(a, AccountAt(a, i))
       /\ graph[a].accounts[AccountAt(a, i).name].status = "incorrectly_defined"
       /\ HasIssue(graph[a].accounts[AccountAt(a, i).name], IssueInitNoSeeds)

(***************************************************************************)
(* C21.  A Pass-2 reference to an account that is not UNDEFINED, and a     *)
(* reference of an account to itself.                                      *)
(***************************************************************************)
\* The references of the call that name account X.
RefsTo(a, X) == {r \in AppliedRefs(a) : r.name = X}

\* The entries the sequence t has after its prefix s.
Appended(s, t) == [k \in 1..(Len(t) - Len(s)) |-> t[Len(s) + k]]

\* No reference of the call names an UNDEFINED account of the graph.
NoUpgradableTarget(a) ==
    \A r \in AppliedRefs(a) :
       r.name \in DOMAIN graph[a].accounts
         => graph[a].accounts[r.name].status /= "undefined"

C21_Step(a) ==
    AppliesReverse(a) =>
      /\ \A X \in DOMAIN graph[a].accounts :
            (X /= Visited(a).name /\ graph[a].accounts[X].status /= "undefined") =>
               LET before == graph[a].accounts[X]
                   after  == graph'[a].accounts[X]
               IN  /\ after.status = before.status
                   /\ after.issues = before.issues
                   /\ IsPrefix(before.defined_by, after.defined_by)
                   /\ Len(after.defined_by)
                        = Len(before.defined_by) + Cardinality(RefsTo(a, X))
                   /\ \A src \in Range(Appended(before.defined_by, after.defined_by)) :
                         /\ src.source_type = "account"
                         /\ src.connection_type = AppliedConnection(a)
                         /\ src.source_name = <<Visited(a).name>>
      /\ NoUpgradableTarget(a) => Counters(graph'[a]) = Counters(graph[a])
      /\ AppliedRefs(a) = {} => graph'[a] = graph[a]

\* C21: a Pass-2 reference from the visited account V to a different
\* account X of the graph whose status is not UNDEFINED leaves X's status
\* and issues unchanged, appends exactly one provenance entry with source V
\* to X's defined_by, and changes no counter; a reference to V itself
\* changes nothing.
C21_ReferenceToSettled == [][\A a \in Analyzers : C21_Step(a)]_vars

\* analyze() has returned with an account that carries two reverse
\* provenance entries from a different account: the second was appended
\* when the account was no longer UNDEFINED.
C21_Witness ==
    \E a \in Analyzers : \E X \in DOMAIN graph[a].accounts :
       /\ Returned(a)
       /\ \E j, k \in 1..Len(graph[a].accounts[X].defined_by) :
             /\ j < k
             /\ graph[a].accounts[X].defined_by[j].connection_type
                  \in {"contains_as_seed", "contains_as_has_one"}
             /\ graph[a].accounts[X].defined_by[k].connection_type
                  \in {"contains_as_seed", "contains_as_has_one"}
             /\ graph[a].accounts[X].defined_by[k].source_name /= <<X>>

(***************************************************************************)
(* C22.  Comments inside an #[account(...)] annotation.                    *)
(***************************************************************************)
\* C22: the attribute list parsed from the annotation is the list parsed
\* from the annotation with every comment (from "//" to the end of the
\* line) removed.
C22_CommentsIgnored ==
    parse_attributes /= None =>
      parse_attributes[1] = parse_account_attribute(remove_comments(parse_text))

(***************************************************************************)
(* C23.  Two fields of one struct with the same name.                      *)
(***************************************************************************)
\* Constraints.get_account: the first account of the name, None when there
\* is none.
RECURSIVE get_account(_, _)
get_account(accounts, name) ==
    IF accounts = <<>> THEN None
    ELSE IF Head(accounts).name = name THEN Some(Head(accounts))
    ELSE get_account(Tail(accounts), name)

\* A provenance entry of Pass 1 (Pass 2 appends the contains_as entries).
FromPass1(src) ==
    src.connection_type \notin {"contains_as_seed", "contains_as_has_one"}

\* The entry is an analysis result of the field: its type and its Pass-1
\* provenance are those of a definition Pass 1 gives the field.
IsResultOf(a, definition, account) ==
    \E r \in RuleResults(DecidingRule(account, known_accounts(a)), account,
                         known_accounts(a), known_instruction_args(a)) :
       /\ definition.account_type = r.account_type
       /\ SelectSeq(definition.defined_by, FromPass1) = r.defined_by

\* C23: in the returned graph the entry of every name is the analysis
\* result of the first field of that name, the one get_account returns.
C23_FirstOccurrenceWins ==
    \A a \in Analyzers : Returned(a) =>
       \A name \in DOMAIN graph[a].accounts :
          IsResultOf(a, graph[a].accounts[name],
                     get_account(constraints[a].accounts, name)[1])

(***************************************************************************)
(* C24.  Status and provenance in the returned graph.                      *)
(***************************************************************************)
\* C24: with unique account names, in the returned graph an UNDEFINED
\* account has an empty defined_by list and a DEFINED account a non-empty
\* one.
C24_StatusMatchesProvenance ==
    \A a \in Analyzers : (Returned(a) /\ UniqueNames(a)) =>
       \A name \in DOMAIN graph[a].accounts :
          /\ graph[a].accounts[name].status = "undefined"
               => graph[a].accounts[name].defined_by = <<>>
          /\ graph[a].accounts[name].status = "defined"
               => graph[a].accounts[name].defined_by /= <<>>

\* analyze() has returned a graph with an UNDEFINED account and an account
\* that Pass 2 has made DEFINED.
C24_Witness ==
    \E a \in Analyzers : \E n1, n2 \in DOMAIN graph[a].accounts :
       /\ Returned(a) /\ UniqueNames(a)
       /\ graph[a].accounts[n1].status = "undefined"
       /\ graph[a].accounts[n2].status = "defined"
       /\ \E src \in Sources(graph[a].accounts[n2]) : ~FromPass1(src)

(***************************************************************************)
(* C25.  Status and issues in the returned graph.                          *)
(***************************************************************************)
\* C25: in the returned graph every account that is not DEFINED carries at
\* least one issue, and no DEFINED account carries the issue "Account is
\* not defined by any constraints" (the one issue text that contains "not
\* defined").
C25_StatusMatchesIssues ==
    \A a \in Analyzers : Returned(a) =>
       \A name \in DOMAIN graph[a].accounts :
          /\ graph[a].accounts[name].status /= "defined"
               => graph[a].accounts[name].issues /= <<>>
          /\ graph[a].accounts[name].status = "defined"
               => ~HasIssue(graph[a].accounts[name], IssueNotDefined)

\* analyze() has returned a graph in which Pass 2 has made an account
\* DEFINED, next to an account that is not DEFINED.
C25_Witness ==
    \E a \in Analyzers : \E n1, n2 \in DOMAIN graph[a].accounts :
       /\ Returned(a)
       /\ graph[a].accounts[n1].status \in {"needs_review", "incorrectly_defined"}
       /\ graph[a].accounts[n2].status = "defined"
       /\ \A src \in Sources(graph[a].accounts[n2]) : ~FromPass1(src)
       /\ graph[a].accounts[n2].defined_by /= <<>>

(***************************************************************************)
(* C26.  A seeds-derived account all of whose references resolve.          *)
(***************************************************************************)
\* C26: a non-init account with seeds, every identifier of whose seed and
\* bump expressions names a known account or instruction argument (the
\* bare bump flag set aside), is DEFINED and without issues in the
\* returned graph.
C26_ResolvedSeedsClean ==
    \A a \in Analyzers : \A i \in 1..NumAccounts(a) :
       ( /\ Returned(a)
         /\ NameBorneOnce(a, i)
         /\ HasSeedsOutsideInit(AccountAt(a, i))
         /\ Resolves(a, SeedIdentifiers(AccountAt(a, i)))
         /\ Resolves(a, BumpIdentifiers(AccountAt(a, i))) )
       => /\ graph[a].accounts[AccountAt(a, i).name].status = "defined"
          /\ graph[a].accounts[AccountAt(a, i).name].issues = <<>>

(***************************************************************************)
(* C27.  No account is defined by itself.                                  *)
(***************************************************************************)
\* C27: in the returned graph no defined_by entry of source_type account on
\* account X has source_name X.
C27_NotSelfDefined ==
    \A a \in Analyzers : Returned(a) =>
       \A X \in DOMAIN graph[a].accounts :
          \A src \in Sources(graph[a].accounts[X]) :
             src.source_type = "account" => src.source_name /= <<X>>

(***************************************************************************)
(* C28.  The final statuses do not depend on the order of the accounts or  *)
(* on the iteration order of the reference sets.                           *)
(***************************************************************************)
\* The struct with its accounts list in the order p.
Permuted(c, p) == [c EXCEPT !.accounts = [k \in 1..Len(p) |-> c.accounts[p[k]]]]

\* C28: with unique account names, the statuses of the returned graph are
\* the statuses analyze() returns for every permutation of the accounts
\* list, whatever order the reference sets are iterated in.
C28_OrderIndependent ==
    \A a \in Analyzers : (Returned(a) /\ UniqueNames(a)) =>
       \A p \in Orders(1..Len(constraints[a].accounts)) :
          /\ analyze(Permuted(constraints[a], p)) /= {}
          /\ \A g \in analyze(Permuted(constraints[a], p)) :
                Statuses(g) = Statuses(graph[a])

\* analyze() has returned for a struct of two accounts in which the second
\* account makes the first DEFINED in Pass 2.
C28_Witness ==
    \E a \in Analyzers :
       /\ Returned(a) /\ UniqueNames(a)
       /\ Len(constraints[a].accounts) >= 2
       /\ Unconstrained(AccountAt(a, 1))
       /\ graph[a].accounts[AccountAt(a, 1).name].status = "defined"

(***************************************************************************)
(* C29.  Where the instruction arguments of a struct come from.            *)
(***************************************************************************)
\* The attributes attached to the item at position i: those among the
\* contiguous attribute and comment siblings immediately before it.
AttachedAttributes(s, i) ==
    {j \in 1..(i - 1) :
        /\ s[j].type = "attribute_item"
        /\ \A l \in j..(i - 1) : s[l].type \in {"attribute_item"} \cup Comments}

AttachedInstructions(s, i) ==
    {j \in AttachedAttributes(s, i) : InText("instruction", s[j].text)}

\* The positions of the validation structs of the file.
ValidationStructs(s) ==
    {i \in 1..Len(s) :
        /\ s[i].type = "struct_item"
        /\ \E j \in AttachedAttributes(s, i) :
              InText("derive", s[j].text) /\ InText("Accounts", s[j].text)}

\* The entry of the returned list for the validation struct at position i.
ExtractedFor(i) ==
    constraints_list[1][Cardinality({j \in ValidationStructs(siblings) : j <= i})]

\* C29: the instruction arguments of every validation struct are those of
\* an instruction annotation attached to it, and the list is empty when no
\* instruction annotation is attached to it.
C29_InstructionArgsAttached ==
    constraints_list /= None =>
       \A i \in ValidationStructs(siblings) :
          IF AttachedInstructions(siblings, i) = {}
          THEN ExtractedFor(i).instruction_args = <<>>
          ELSE \E j \in AttachedInstructions(siblings, i) :
                  ExtractedFor(i).instruction_args
                    = extract_instruction_args(siblings[j].text)

(***************************************************************************)
(* C30.  PARTIALLY_DEFINED is never reached.                               *)
(***************************************************************************)
Reached == {"undefined", "defined", "needs_review", "incorrectly_defined"}

\* C30: in every state of Pass 1 and Pass 2 and in the returned graph, the
\* status of every account is UNDEFINED, DEFINED, NEEDS_REVIEW or
\* INCORRECTLY_DEFINED.
C30_NeverPartiallyDefined ==
    \A a \in Analyzers : \A name \in DOMAIN graph[a].accounts :
       graph[a].accounts[name].status \in Reached

\* analyze() has returned a graph in which each of the four statuses
\* occurs or the graph holds a NEEDS_REVIEW account next to an account
\* Pass 2 has upgraded.
C30_Witness ==
    \E a \in Analyzers : \E n1, n2 \in DOMAIN graph[a].accounts :
       /\ Returned(a)
       /\ graph[a].accounts[n1].status = "needs_review"
       /\ graph[a].accounts[n2].status = "defined"
       /\ \E src \in Sources(graph[a].accounts[n2]) : ~FromPass1(src)

====
